---- MODULE Spec2Model ----
(***************************************************************************)
(* Verification model of the perano compiler: the three code generators    *)
(* (ELF textual assembly, PE machine code, NVM bytecode), the PE container *)
(* writer, the module loader and the output paths of main.rs, and a        *)
(* reference x86-64 machine on which the native code written is run.       *)
(***************************************************************************)
EXTENDS Integers, Sequences, FiniteSets, TLC

VARIABLES
    source_file, \* main.rs: args[1], a sequence of characters
    output_file, \* main.rs: the path derived from source_file for the target
    fs,          \* the paths of the files the compilation has created and not removed
    target,      \* main.rs: the selected backend ("elf", "pe", "novaria", "nvm-code")
    program,     \* ast::Program handed to the backend (after load_modules)
    pc,          \* position of the compilation inside main / generate
    visited,     \* module keys the `for (module_name, module)` loop has visited, in order
    fn_index,    \* index of the `for func in &program.functions` loop
    asm,         \* elf::AsmGenerator
    nvm,         \* nvm::NVMCodeGen
    cg,          \* pe::CodeGen
    artifact,    \* what was written for the output file
    console,     \* the messages printed so far
    outcome,     \* how the process ended
    vm,          \* a reference NVM executing an emitted image
    ld,          \* load_modules: its call stack, the seen-set and the file reads
    cpu          \* a reference x86-64 machine executing the native code written

vars == <<source_file, output_file, fs, target, program, pc, visited, fn_index, asm, nvm, cg, artifact, console, outcome,
          vm, ld, cpu>>

(***************************************************************************)
(* Bounds of the model.                                                    *)
(***************************************************************************)
MaxParams == 7
NestDepth == 2
MaxInline == 4
\* string literals of 0..ShortText bytes, and of a few lengths up to LongText bytes
ShortText == 40
LongText == 4032

(***************************************************************************)
(* ast.rs                                                                  *)
(***************************************************************************)
None == << >>
Some(x) == <<x>>

Number(n) == [tag |-> "Number", n |-> n]
\* a Number outside the i32 range, as the two 32-bit halves of its i64
WideNumber(hi, lo) == [tag |-> "Number", n |-> lo, hi |-> hi]
StringLit(s) == [tag |-> "String", s |-> s]
Identifier(name) == [tag |-> "Identifier", name |-> name]
Binary(op, left, right) == [tag |-> "Binary", op |-> op, left |-> left, right |-> right]
Unary(op, operand) == [tag |-> "Unary", op |-> op, operand |-> operand]
Call(function, args) == [tag |-> "Call", function |-> function, args |-> args]
ModuleCall(module, function, args) ==
    [tag |-> "ModuleCall", module |-> module, function |-> function, args |-> args]

ArrayAccess(name, index) == [tag |-> "ArrayAccess", name |-> name, index |-> index]

VarDecl(name, value) == [tag |-> "VarDecl", name |-> name, value |-> value]
ArrayDecl(name, size) == [tag |-> "ArrayDecl", name |-> name, size |-> size]
ArrayAssignment(name, index, value) ==
    [tag |-> "ArrayAssignment", name |-> name, index |-> index, value |-> value]
Assignment(name, value) == [tag |-> "Assignment", name |-> name, value |-> value]
IfStmt(condition, then_body, else_body) ==
    [tag |-> "If", condition |-> condition, then_body |-> then_body, else_body |-> else_body]
ForStmt(condition, body) == [tag |-> "For", condition |-> condition, body |-> body]
Return(value) == [tag |-> "Return", value |-> value]
ExpressionStmt(expr) == [tag |-> "Expression", expr |-> expr]

Function(name, params, body, is_exported) ==
    [name |-> name, params |-> params, body |-> body, is_exported |-> is_exported]
Module(name, functions) == [name |-> name, functions |-> functions]
Program(functions, modules) == [functions |-> functions, modules |-> modules]

(***************************************************************************)
(* HashMap helpers.                                                        *)
(***************************************************************************)
EmptyMap == [k \in {} |-> 0]
MapInsert(m, k, v) == [x \in (DOMAIN m) \cup {k} |-> IF x = k THEN v ELSE m[x]]

(***************************************************************************)
(* elf/asm_generator.rs: AsmGenerator.  The output text is kept line by    *)
(* line, each line as <<mnemonic, operand, operand>> with the operands      *)
(* formatted as the format! calls format them.  `frames` is a history of    *)
(* the variable map at the moment a function's body starts.                *)
(***************************************************************************)
AsmNew ==
    [output |-> << >>, label_counter |-> 0, string_literals |-> << >>,
     variables |-> EmptyMap, stack_offset |-> 0, frames |-> << >>]

arg_regs == <<"%rdi", "%rsi", "%rdx", "%rcx", "%r8", "%r9">>

AsmLine(g, mnemonic, a, b) == [g EXCEPT !.output = Append(@, <<mnemonic, a, b>>)]

\* consecutive push_str calls
AsmLines(g, lines) == [g EXCEPT !.output = @ \o lines]

FrameSlot(offset) == ToString(offset) \o "(%rbp)"

MangleSymbol(module_name, func_name) == module_name \o "_" \o func_name

AsmNextLabel(g) == ".L" \o ToString(g.label_counter)

AsmBinaryOp(g, op) ==
    CASE op = "Add" -> AsmLine(g, "addq", "%rcx", "%rax")
      [] op = "Sub" -> AsmLine(g, "subq", "%rcx", "%rax")
      [] op = "Mul" -> AsmLine(g, "imulq", "%rcx", "%rax")
      [] op = "Div" -> AsmLines(g, << <<"cqto", "", "">>, <<"idivq", "%rcx", "">> >>)
      [] op = "Mod" -> AsmLines(g, << <<"cqto", "", "">>, <<"idivq", "%rcx", "">>,
                                      <<"movq", "%rdx", "%rax">> >>)
      [] op \in {"Equal", "NotEqual", "Less", "LessEqual", "Greater", "GreaterEqual"} ->
            AsmLines(g, << <<"cmpq", "%rcx", "%rax">>,
                           <<CASE op = "Equal" -> "sete" [] op = "NotEqual" -> "setne"
                               [] op = "Less" -> "setl" [] op = "LessEqual" -> "setle"
                               [] op = "Greater" -> "setg" [] OTHER -> "setge", "%al", "">>,
                           <<"movzbq", "%al", "%rax">> >>)
      [] OTHER -> g

RECURSIVE AsmPopArgs(_, _, _)
AsmPopArgs(g, i, n) ==
    IF i > n THEN g
    ELSE AsmPopArgs(IF i <= Len(arg_regs) THEN AsmLine(g, "popq", arg_regs[i], "") ELSE g,
                    i + 1, n)

\* the address of the element whose index is in %rax
AsmElementAddress(g, base_offset) ==
    AsmLines(g, << <<"imulq", "$8", "%rax">>, <<"addq", "$" \o ToString(base_offset), "%rax">>,
                   <<"addq", "%rbp", "%rax">> >>)

\* for i in 0..*size: movq $0, {stack_offset + 8 i}(%rbp)
RECURSIVE AsmZeroArray(_, _, _)
AsmZeroArray(g, i, size) ==
    IF i >= size THEN g
    ELSE AsmZeroArray(AsmLine(g, "movq", "$0", FrameSlot(g.stack_offset + (i * 8))),
                      i + 1, size)

RECURSIVE AsmGenerateExpression(_, _), AsmPushArgs(_, _, _)
AsmGenerateExpression(g, e) ==
    CASE e.tag = "Number" -> AsmLine(g, "movq", "$" \o ToString(e.n), "%rax")
      [] e.tag = "Identifier" ->
            IF e.name \in DOMAIN g.variables
            THEN AsmLine(g, "movq", FrameSlot(g.variables[e.name]), "%rax")
            ELSE g
      [] e.tag = "Binary" ->
            LET g1 == AsmLine(AsmGenerateExpression(g, e.right), "pushq", "%rax", "")
                g2 == AsmLine(AsmGenerateExpression(g1, e.left), "popq", "%rcx", "")
            IN  AsmBinaryOp(g2, e.op)
      [] e.tag = "Unary" ->
            LET g1 == AsmGenerateExpression(g, e.operand)
            IN  IF e.op = "Neg" THEN AsmLine(g1, "negq", "%rax", "")
                ELSE AsmLines(g1, << <<"testq", "%rax", "%rax">>, <<"sete", "%al", "">>,
                                     <<"movzbq", "%al", "%rax">> >>)
      [] e.tag = "Call" ->
            AsmLine(AsmPopArgs(AsmPushArgs(g, e.args, Len(e.args)), 1, Len(e.args)),
                    "call", e.function, "")
      [] e.tag = "ModuleCall" ->
            AsmLine(AsmPopArgs(AsmPushArgs(g, e.args, Len(e.args)), 1, Len(e.args)),
                    "call", MangleSymbol(e.module, e.function), "")
      [] e.tag = "ArrayAccess" ->
            LET g1 == AsmGenerateExpression(g, e.index)
            IN  IF e.name \in DOMAIN g1.variables
                THEN AsmLine(AsmElementAddress(g1, g1.variables[e.name]),
                             "movq", "(%rax)", "%rax")
                ELSE g1
      [] e.tag = "String" ->
            AsmLine([g EXCEPT !.string_literals = Append(@, e.s)],
                    "leaq", ".LS" \o ToString(Len(g.string_literals)) \o "(%rip)", "%rax")
      [] OTHER -> g

\* faulty variant: the arguments generated and pushed first to last
RECURSIVE AsmPushArgsForward(_, _, _)
AsmPushArgsForward(g, args, i) ==
    IF i = 0 THEN g
    ELSE AsmPushArgsForward(AsmLine(AsmGenerateExpression(g, args[Len(args) - i + 1]),
                                    "pushq", "%rax", ""),
                            args, i - 1)

\* for arg in args.iter().rev(): generate, pushq %rax
AsmPushArgs(g, args, i) ==
    IF i = 0 THEN g
    ELSE AsmPushArgs(AsmLine(AsmGenerateExpression(g, args[i]), "pushq", "%rax", ""),
                     args, i - 1)

RECURSIVE AsmGenerateStatement(_, _), AsmGenerateStatements(_, _)
AsmGenerateStatement(g, stmt) ==
    CASE stmt.tag = "VarDecl" ->
            IF stmt.value # None
            THEN LET g1 == AsmGenerateExpression(g, stmt.value[1])
                     off == g1.stack_offset - 8
                 IN  AsmLine([g1 EXCEPT !.stack_offset = off,
                                        !.variables = MapInsert(@, stmt.name, off)],
                             "movq", "%rax", FrameSlot(off))
            ELSE g
      [] stmt.tag = "ArrayDecl" ->
            AsmZeroArray([g EXCEPT !.stack_offset = @ - (stmt.size * 8),
                                   !.variables = MapInsert(@, stmt.name,
                                                           g.stack_offset - (stmt.size * 8))],
                         0, stmt.size)
      [] stmt.tag = "Assignment" ->
            LET g1 == AsmGenerateExpression(g, stmt.value)
            IN  IF stmt.name \in DOMAIN g1.variables
                THEN AsmLine(g1, "movq", "%rax", FrameSlot(g1.variables[stmt.name]))
                ELSE g1
      [] stmt.tag = "ArrayAssignment" ->
            LET g1 == AsmGenerateExpression(
                          AsmLine(AsmGenerateExpression(g, stmt.value), "pushq", "%rax", ""),
                          stmt.index)
            IN  IF stmt.name \in DOMAIN g1.variables
                THEN AsmLines(AsmElementAddress(g1, g1.variables[stmt.name]),
                              << <<"popq", "%rcx", "">>, <<"movq", "%rcx", "(%rax)">> >>)
                ELSE g1
      [] stmt.tag = "Return" ->
            AsmLines(IF stmt.value # None THEN AsmGenerateExpression(g, stmt.value[1])
                     ELSE AsmLine(g, "movl", "$0", "%eax"),
                     << <<"leave", "", "">>, <<"ret", "", "">> >>)
      [] stmt.tag = "Expression" -> AsmGenerateExpression(g, stmt.expr)
      [] stmt.tag = "If" ->
            LET g1 == AsmGenerateExpression(g, stmt.condition)
                else_label == AsmNextLabel(g1)
                g2 == [g1 EXCEPT !.label_counter = @ + 1]
                end_label == AsmNextLabel(g2)
                g3 == AsmLines([g2 EXCEPT !.label_counter = @ + 1],
                               << <<"testq", "%rax", "%rax">>, <<"je", else_label, "">> >>)
                g4 == AsmLines(AsmGenerateStatements(g3, stmt.then_body),
                               << <<"jmp", end_label, "">>, <<"label", else_label, "">> >>)
                g5 == IF stmt.else_body # None
                      THEN AsmGenerateStatements(g4, stmt.else_body[1]) ELSE g4
            IN  AsmLine(g5, "label", end_label, "")
      [] stmt.tag = "For" ->
            LET loop_label == AsmNextLabel(g)
                g1 == [g EXCEPT !.label_counter = @ + 1]
                end_label == AsmNextLabel(g1)
                g2 == AsmLine([g1 EXCEPT !.label_counter = @ + 1], "label", loop_label, "")
                g3 == IF stmt.condition # None
                      THEN AsmLines(AsmGenerateExpression(g2, stmt.condition[1]),
                                    << <<"testq", "%rax", "%rax">>, <<"je", end_label, "">> >>)
                      ELSE g2
            IN  AsmLines(AsmGenerateStatements(g3, stmt.body),
                         << <<"jmp", loop_label, "">>, <<"label", end_label, "">> >>)
      [] OTHER -> g

AsmGenerateStatements(g, stmts) ==
    IF stmts = << >> THEN g
    ELSE AsmGenerateStatements(AsmGenerateStatement(g, Head(stmts)), Tail(stmts))

\* the `for (i, param) in func.params.iter().enumerate()` loop of both function emitters
RECURSIVE AsmSpillParams(_, _, _)
AsmSpillParams(st, params, i) ==
    IF i > Len(params) THEN st
    ELSE IF i <= Len(arg_regs)
         THEN LET off == st.local_offset - 8
              IN  AsmSpillParams(
                      [g |-> AsmLine(st.g, "movq", arg_regs[i], FrameSlot(off)),
                       local_vars |-> MapInsert(st.local_vars, params[i], off),
                       local_offset |-> off],
                      params, i + 1)
         ELSE AsmSpillParams(st, params, i + 1)

\* history: the variable map with which a body starts
AsmNoteFrame(g, symbol, params) ==
    [g EXCEPT !.frames = Append(@, [symbol |-> symbol, params |-> params,
                                    variables |-> g.variables,
                                    stack_offset |-> g.stack_offset])]

AsmFunctionBody(g, symbol, func) ==
    LET g1 == AsmLines(g, << <<"pushq", "%rbp", "">>, <<"movq", "%rsp", "%rbp">>,
                             <<"subq", "$64", "%rsp">> >>)
        sp == AsmSpillParams([g |-> g1, local_vars |-> EmptyMap, local_offset |-> 0],
                             func.params, 1)
        g2 == AsmNoteFrame([sp.g EXCEPT !.variables = sp.local_vars,
                                        !.stack_offset = sp.local_offset],
                           symbol, func.params)
        g3 == AsmGenerateStatements(g2, func.body)
        g4 == [g3 EXCEPT !.variables = g.variables, !.stack_offset = g.stack_offset]
    IN  AsmLines(g4, << <<"movl", "$0", "%eax">>, <<"leave", "", "">>, <<"ret", "", "">> >>)

AsmGenerateUserFunction(g, func) ==
    AsmFunctionBody(AsmLines(g, << <<".globl", func.name, "">>, <<"label", func.name, "">> >>),
                    func.name, func)

\* faulty variant: a module function defined under its bare name
AsmGenerateModuleFunctionBare(g, module_name, func) ==
    AsmFunctionBody(AsmLines(g, << <<".globl", func.name, "">>, <<"label", func.name, "">> >>),
                    func.name, func)

AsmGenerateModuleFunction(g, module_name, func) ==
    AsmFunctionBody(AsmLines(g, << <<".globl", MangleSymbol(module_name, func.name), "">>,
                                   <<"label", MangleSymbol(module_name, func.name), "">> >>),
                    MangleSymbol(module_name, func.name), func)

\* one printf thunk of generate_stdio_functions
AsmPrintfThunk(g, symbol, format) ==
    AsmLines([g EXCEPT !.string_literals = Append(@, format)],
        << <<".globl", symbol, "">>, <<"label", symbol, "">>,
           <<"pushq", "%rbp", "">>, <<"movq", "%rsp", "%rbp">>, <<"movq", "%rdi", "%rsi">>,
           <<"leaq", ".LS" \o ToString(Len(g.string_literals)) \o "(%rip)", "%rdi">>,
           <<"xorl", "%eax", "%eax">>, <<"call", "printf@PLT", "">>,
           <<"xorl", "%eax", "%eax">>, <<"leave", "", "">>, <<"ret", "", "">> >>)

AsmGenerateStdioFunctions(g) ==
    LET g1 == AsmPrintfThunk(g, "stdio_Println", "%ld\\n")
        g2 == AsmPrintfThunk(g1, "stdio_Print", "%ld")
        g3 == AsmPrintfThunk(g2, "stdio_PrintStr", "%s")
        g4 == AsmPrintfThunk(g3, "stdio_PrintlnStr", "%s\\n")
        g5 == AsmLines(g4,
                << <<".globl", "stdio_PrintChar", "">>, <<"label", "stdio_PrintChar", "">>,
                   <<"pushq", "%rbp", "">>, <<"movq", "%rsp", "%rbp">>,
                   <<"movl", "%edi", "%edi">>, <<"call", "putchar@PLT", "">>,
                   <<"xorl", "%eax", "%eax">>, <<"leave", "", "">>, <<"ret", "", "">> >>)
        g6 == AsmLines([g5 EXCEPT !.string_literals = Append(@, "%ld")],
                << <<".globl", "stdio_ReadInt", "">>, <<"label", "stdio_ReadInt", "">>,
                   <<"pushq", "%rbp", "">>, <<"movq", "%rsp", "%rbp">>,
                   <<"subq", "$16", "%rsp">>,
                   <<"leaq", ".LS" \o ToString(Len(g5.string_literals)) \o "(%rip)", "%rdi">>,
                   <<"leaq", "-8(%rbp)", "%rsi">>, <<"xorl", "%eax", "%eax">>,
                   <<"call", "scanf@PLT", "">>, <<"movq", "-8(%rbp)", "%rax">>,
                   <<"leave", "", "">>, <<"ret", "", "">> >>)
        g7 == AsmLines(g6,
                << <<".globl", "stdio_ReadChar", "">>, <<"label", "stdio_ReadChar", "">>,
                   <<"pushq", "%rbp", "">>, <<"movq", "%rsp", "%rbp">>,
                   <<"call", "getchar@PLT", "">>, <<"cltq", "", "">>,
                   <<"leave", "", "">>, <<"ret", "", "">> >>)
        g8 == AsmLines(g7,
                << <<".globl", "stdio_ReadLine", "">>, <<"label", "stdio_ReadLine", "">>,
                   <<"pushq", "%rbp", "">>, <<"movq", "%rsp", "%rbp">>,
                   <<"pushq", "%rbx", "">>, <<"movq", "%rdi", "%rbx">>,
                   <<"movq", "%rsi", "%rdx">>, <<"movq", "%rbx", "%rdi">>,
                   <<"movq", "stdin@GOTPCREL(%rip)", "%rax">>, <<"movq", "(%rax)", "%rsi">>,
                   <<"call", "fgets@PLT", "">>, <<"testq", "%rax", "%rax">>,
                   <<"je", ".LReadLine_fail", "">>, <<"movq", "%rbx", "%rdi">>,
                   <<"call", "strlen@PLT", "">>, <<"jmp", ".LReadLine_end", "">>,
                   <<"label", ".LReadLine_fail", "">>, <<"xorl", "%eax", "%eax">>,
                   <<"label", ".LReadLine_end", "">>, <<"popq", "%rbx", "">>,
                   <<"leave", "", "">>, <<"ret", "", "">> >>)
    IN  AsmLines(g8,
                << <<".globl", "stdio_Flush", "">>, <<"label", "stdio_Flush", "">>,
                   <<"pushq", "%rbp", "">>, <<"movq", "%rsp", "%rbp">>,
                   <<"movq", "stdout@GOTPCREL(%rip)", "%rax">>, <<"movq", "(%rax)", "%rdi">>,
                   <<"call", "fflush@PLT", "">>, <<"xorl", "%eax", "%eax">>,
                   <<"leave", "", "">>, <<"ret", "", "">> >>)

\* faulty variant: the functions of a module emitted whether exported or not
RECURSIVE AsmGenerateModuleAll(_, _, _)
AsmGenerateModuleAll(g, module_name, functions) ==
    IF functions = << >> THEN g
    ELSE AsmGenerateModuleAll(AsmGenerateModuleFunction(g, module_name, Head(functions)),
                              module_name, Tail(functions))

\* the exported functions of one module, in declaration order
RECURSIVE AsmGenerateModule(_, _, _)
AsmGenerateModule(g, module_name, functions) ==
    IF functions = << >> THEN g
    ELSE AsmGenerateModule(
            IF Head(functions).is_exported
            THEN AsmGenerateModuleFunction(g, module_name, Head(functions)) ELSE g,
            module_name, Tail(functions))

\* program.functions.iter().find(|f| f.name == "main")
RECURSIVE FindFunction(_, _)
FindFunction(functions, name) ==
    IF functions = << >> THEN None
    ELSE IF Head(functions).name = name THEN Some(Head(functions))
         ELSE FindFunction(Tail(functions), name)

RECURSIVE AsmRodata(_, _, _)
AsmRodata(g, literals, i) ==
    IF i > Len(literals) THEN g
    ELSE AsmRodata(AsmLines(g, << <<"label", ".LS" \o ToString(i - 1), "">>,
                                  <<".string", literals[i], "">> >>), literals, i + 1)

AsmGenerateMain(g, prog) ==
    LET g1 == AsmLines(g, << <<".globl", "main", "">>, <<"label", "main", "">>,
                             <<"pushq", "%rbp", "">>, <<"movq", "%rsp", "%rbp">>,
                             <<"subq", "$64", "%rsp">> >>)
        main_func == FindFunction(prog.functions, "main")
        g2 == IF main_func # None
              THEN AsmGenerateStatements(AsmNoteFrame(g1, "main", << >>), main_func[1].body)
              ELSE g1
        g3 == AsmLines(g2, << <<"movl", "$0", "%eax">>, <<"leave", "", "">>,
                              <<"ret", "", "">> >>)
    IN  IF g3.string_literals # << >>
        THEN AsmRodata(AsmLine(g3, ".section", ".rodata", ""), g3.string_literals, 1)
        ELSE g3

(***************************************************************************)
(* nvm/codegen.rs: NVMCodeGen.  Bytes are numbers 0..255.  `counter` is    *)
(* the static COUNTER of generate_label; `saved` is the stack of counter    *)
(* values at which the active statements drew their labels, innermost      *)
(* last; `defined` is the history of                                       *)
(* add_label calls in the order they were made.                            *)
(***************************************************************************)
PUSH32 == 2
POP == 4
SWAP == 6
ADD == 16
SUB == 17
MUL == 18
DIV == 19
MOD == 20
EQ == 33
NEQ == 34
GT == 35
LT == 36
JMP32 == 48
JZ32 == 49
JNZ32 == 50
CALL32 == 51
RET == 52
LOAD == 64
STORE == 65
SYSCALL == 80
SYSCALL_EXIT == 0
SYSCALL_PRINT == 15

NVMCodeGenNew ==
    [bytecode |-> << >>, labels |-> EmptyMap, label_patches |-> << >>,
     local_vars |-> EmptyMap, next_local |-> 0, current_function |-> "",
     string_literals |-> << >>, counter |-> 0, saved |-> << >>, defined |-> << >>,
     unresolved |-> << >>, frames |-> << >>, panicked |-> FALSE]

\* faulty variant: the bytes in little-endian order
to_ne_bytes(value) ==
    <<value % 256, (value \div 256) % 256, (value \div 65536) % 256,
      (value \div 16777216) % 256>>

\* i32 (or the u32 of the same bit pattern) -> the four bytes of to_be_bytes();
\* \div rounds down, so a negative value yields its two's complement bytes
to_be_bytes(value) ==
    <<(value \div 16777216) % 256, (value \div 65536) % 256, (value \div 256) % 256,
      value % 256>>

emit_byte(n, byte) == IF n.panicked THEN n ELSE [n EXCEPT !.bytecode = Append(@, byte)]

emit_push32(n, value) ==
    IF n.panicked THEN n ELSE [n EXCEPT !.bytecode = (@ \o <<PUSH32>>) \o to_be_bytes(value)]

emit_label_ref(n, label) ==
    IF n.panicked THEN n
    ELSE [n EXCEPT !.label_patches = Append(@, <<Len(n.bytecode), label>>),
                   !.bytecode = @ \o <<0, 0, 0, 0>>]

add_label(n, label) ==
    IF n.panicked THEN n
    ELSE [n EXCEPT !.labels = MapInsert(@, label, Len(n.bytecode)),
                   !.defined = Append(@, label)]

\* the label generate_label returns in state n (the caller advances the counter)
generate_label(n, prefix) == prefix \o "_" \o n.current_function \o "_" \o ToString(n.counter)
NextCounter(n) == [n EXCEPT !.counter = @ + 1]

NvmPanic(n) == [n EXCEPT !.panicked = TRUE]

\* PUSH32 <byte>; SYSCALL PRINT for every byte of a literal
RECURSIVE NvmPrintBytes(_, _)
NvmPrintBytes(n, s) ==
    IF s = << >> THEN n
    ELSE NvmPrintBytes(emit_byte(emit_byte(emit_push32(n, Head(s)), SYSCALL), SYSCALL_PRINT),
                       Tail(s))

NvmBinaryOp(n, op) ==
    CASE op = "Add" -> emit_byte(n, ADD)
      [] op = "Sub" -> emit_byte(n, SUB)
      [] op = "Mul" -> emit_byte(n, MUL)
      [] op = "Div" -> emit_byte(n, DIV)
      [] op = "Mod" -> emit_byte(n, MOD)
      [] op = "Equal" -> emit_byte(n, EQ)
      [] op = "NotEqual" -> emit_byte(n, NEQ)
      [] op = "Less" -> emit_byte(n, LT)
      [] op = "Greater" -> emit_byte(n, GT)
      [] op = "LessEqual" -> emit_byte(emit_push32(emit_byte(n, GT), 0), EQ)
      [] op = "GreaterEqual" -> emit_byte(emit_push32(emit_byte(n, LT), 0), EQ)
      [] OTHER -> n

RECURSIVE NvmGenerateExpression(_, _), NvmGenerateArgs(_, _, _)
NvmGenerateExpression(n, e) ==
    IF n.panicked THEN n ELSE
    CASE e.tag = "Number" -> emit_push32(n, e.n)
      [] e.tag = "String" ->
            LET string_label == generate_label(n, "str")
                n1 == emit_push32([NextCounter(n) EXCEPT
                                      !.string_literals = Append(@, <<string_label, e.s>>)], 0)
            IN  [n1 EXCEPT !.label_patches =
                               Append(@, <<Len(n1.bytecode) - 4, string_label>>)]
      [] e.tag = "Identifier" ->
            IF e.name \in DOMAIN n.local_vars
            THEN emit_byte(emit_byte(n, LOAD), n.local_vars[e.name])
            ELSE NvmPanic(n)
      [] e.tag = "Binary" ->
            NvmBinaryOp(NvmGenerateExpression(NvmGenerateExpression(n, e.left), e.right), e.op)
      [] e.tag = "Unary" ->
            LET n1 == NvmGenerateExpression(n, e.operand)
            IN  IF e.op = "Neg" THEN emit_byte(emit_byte(emit_push32(n1, 0), SWAP), SUB)
                ELSE emit_byte(emit_push32(n1, 0), EQ)
      [] e.tag = "Call" ->
            emit_label_ref(emit_byte(NvmGenerateArgs(n, e.args, Len(e.args)), CALL32),
                           "func_" \o e.function)
      [] e.tag = "ModuleCall" ->
            IF e.module = "stdio" /\ e.function = "Print" /\ e.args # << >>
            THEN IF e.args[1].tag = "String"
                 THEN emit_push32(NvmPrintBytes(n, e.args[1].s), 0)
                 ELSE emit_push32(
                        emit_label_ref(emit_byte(NvmGenerateExpression(n, e.args[1]), CALL32),
                                       "__print_int"), 0)
            ELSE IF e.module = "stdio" /\ e.function = "Println" /\ e.args # << >>
            THEN IF e.args[1].tag = "String"
                 THEN emit_push32(NvmPrintBytes(NvmPrintBytes(n, e.args[1].s), <<10>>), 0)
                 ELSE emit_push32(
                        NvmPrintBytes(
                          emit_label_ref(
                            emit_byte(NvmGenerateExpression(n, e.args[1]), CALL32),
                            "__print_int"),
                          <<10>>), 0)
            ELSE emit_label_ref(emit_byte(NvmGenerateArgs(n, e.args, Len(e.args)), CALL32),
                                "func_" \o e.module \o "_" \o e.function)
      [] OTHER -> emit_push32(n, 0)

\* for arg in args.iter().rev()
NvmGenerateArgs(n, args, i) ==
    IF i = 0 THEN n ELSE NvmGenerateArgs(NvmGenerateExpression(n, args[i]), args, i - 1)

\* a statement draws `count` labels with consecutive generate_label calls
NvmLabels(n, count) == [n EXCEPT !.saved = Append(@, n.counter), !.counter = @ + count]

\* the d-th label (from 0) the innermost active statement drew
SavedLabel(n, prefix, d) ==
    prefix \o "_" \o n.current_function \o "_" \o ToString(n.saved[Len(n.saved)] + d)

NvmJump(n, opcode, prefix, d) ==
    emit_label_ref(emit_byte(n, opcode), SavedLabel(n, prefix, d))
NvmPlace(n, prefix, d) == add_label(n, SavedLabel(n, prefix, d))
NvmDropLabels(n) == [n EXCEPT !.saved = SubSeq(@, 1, Len(@) - 1)]

\* let local_index = self.next_local; ...; STORE local_index
NvmStoreNew(n, name) ==
    IF n.panicked THEN n
    ELSE emit_byte(emit_byte([n EXCEPT !.local_vars = MapInsert(@, name, n.next_local),
                                       !.next_local = @ + 1], STORE), n.next_local)

\* STORE of an assignment; an unknown name panics
NvmStore(n, name) ==
    IF n.panicked THEN n
    ELSE IF name \in DOMAIN n.local_vars
         THEN emit_byte(emit_byte(n, STORE), n.local_vars[name])
         ELSE NvmPanic(n)

\* if let Some(cond) = condition { cond; JZ32 loop_end }
NvmForCondition(n, condition) ==
    IF condition # None
    THEN NvmJump(NvmGenerateExpression(n, condition[1]), JZ32, "for_end", 1)
    ELSE n

RECURSIVE NvmGenerateStatement(_, _), NvmGenerateStatements(_, _)
NvmGenerateStatement(n, stmt) ==
    IF n.panicked THEN n ELSE
    CASE stmt.tag = "VarDecl" ->
            NvmStoreNew(IF stmt.value # None THEN NvmGenerateExpression(n, stmt.value[1])
                        ELSE emit_push32(n, 0), stmt.name)
      [] stmt.tag = "Assignment" -> NvmStore(NvmGenerateExpression(n, stmt.value), stmt.name)
      [] stmt.tag = "If" ->
            \* labels drawn: else (0), endif (1)
            LET n3 == NvmJump(NvmLabels(NvmGenerateExpression(n, stmt.condition), 2),
                              JZ32, "else", 0)
                n5 == NvmPlace(NvmJump(NvmGenerateStatements(n3, stmt.then_body),
                                       JMP32, "endif", 1), "else", 0)
                n6 == NvmGenerateStatements(n5,
                          IF stmt.else_body # None THEN stmt.else_body[1] ELSE << >>)
            IN  NvmDropLabels(NvmPlace(n6, "endif", 1))
      [] stmt.tag = "For" ->
            \* labels drawn: for_start (0), for_end (1), for_continue (2)
            LET n4 == NvmForCondition(NvmPlace(NvmLabels(n, 3), "for_start", 0),
                                      stmt.condition)
                n5 == NvmPlace(NvmGenerateStatements(n4, stmt.body), "for_continue", 2)
            IN  NvmDropLabels(NvmPlace(NvmJump(n5, JMP32, "for_start", 0), "for_end", 1))
      [] stmt.tag = "Return" ->
            emit_byte(IF stmt.value # None THEN NvmGenerateExpression(n, stmt.value[1]) ELSE n,
                      RET)
      [] stmt.tag = "Expression" -> emit_byte(NvmGenerateExpression(n, stmt.expr), POP)
      [] OTHER -> n

NvmGenerateStatements(n, stmts) ==
    IF stmts = << >> \/ n.panicked THEN n
    ELSE NvmGenerateStatements(NvmGenerateStatement(n, Head(stmts)), Tail(stmts))

RECURSIVE has_return_or_exit(_)
has_return_or_exit(stmts) ==
    \E i \in 1..Len(stmts) :
        \/ stmts[i].tag = "Return"
        \/ stmts[i].tag = "If" /\ \/ has_return_or_exit(stmts[i].then_body)
                                  \/ stmts[i].else_body # None
                                     /\ has_return_or_exit(stmts[i].else_body[1])
        \/ stmts[i].tag = "For" /\ has_return_or_exit(stmts[i].body)

RECURSIVE NvmBindParams(_, _)
NvmBindParams(n, params) ==
    IF params = << >> THEN n
    ELSE NvmBindParams([n EXCEPT !.local_vars = MapInsert(@, Head(params), n.next_local),
                                 !.next_local = @ + 1], Tail(params))

\* history: the local map with which a body starts
NvmNoteFrame(n, symbol, params) ==
    [n EXCEPT !.frames = Append(@, [symbol |-> symbol, params |-> params,
                                    variables |-> n.local_vars,
                                    stack_offset |-> n.next_local,
                                    start |-> n.labels["func_" \o symbol]])]

NvmFunctionBody(n, label_name, func) ==
    LET n1 == add_label([n EXCEPT !.current_function = label_name,
                                  !.local_vars = EmptyMap, !.next_local = 0],
                        "func_" \o label_name)
    IN  NvmGenerateStatements(NvmNoteFrame(NvmBindParams(n1, func.params), label_name,
                                           func.params),
                              func.body)

\* main without a return gets PUSH32 0; SYSCALL EXIT
NvmMainExit(n, func) ==
    IF func.name = "main" /\ ~has_return_or_exit(func.body)
    THEN emit_byte(emit_byte(emit_push32(n, 0), SYSCALL), SYSCALL_EXIT)
    ELSE n

NvmGenerateFunction(n, func) ==
    emit_byte(NvmMainExit(NvmFunctionBody(n, func.name, func), func), RET)

NvmGenerateModuleFunction(n, func, full_name) ==
    emit_byte(NvmFunctionBody(n, full_name, func), RET)

RECURSIVE NvmGenerateModule(_, _, _)
NvmGenerateModule(n, module, functions) ==
    IF functions = << >> THEN n
    ELSE NvmGenerateModule(
            IF Head(functions).is_exported
            THEN NvmGenerateModuleFunction(n, Head(functions),
                                           module.name \o "_" \o Head(functions).name)
            ELSE n,
            module, Tail(functions))

\* a run of emit calls: <<"byte", b>>, <<"push32", v>>, <<"label_ref", l>>, <<"add_label", l>>
RECURSIVE NvmEmitAll(_, _)
NvmEmitAll(n, calls) ==
    IF calls = << >> \/ n.panicked THEN n
    ELSE LET c == Head(calls)
         IN  NvmEmitAll(CASE c[1] = "byte" -> emit_byte(n, c[2])
                          [] c[1] = "push32" -> emit_push32(n, c[2])
                          [] c[1] = "label_ref" -> emit_label_ref(n, c[2])
                          [] OTHER -> add_label(n, c[2]),
                        Tail(calls))

generate_print_int_vga_helper(n) ==
    LET lbl(prefix, k) == generate_label([n EXCEPT !.counter = @ + k], prefix)
        not_negative_label == lbl("not_negative", 0)
        not_zero == lbl("not_zero", 1)
        find_power_loop == lbl("find_power", 2)
        find_power_done == lbl("find_power_done", 3)
        print_loop == lbl("print_digit_loop", 4)
        print_done == lbl("print_done", 5)
    IN  NvmEmitAll([n EXCEPT !.counter = @ + 6], <<
            <<"add_label", "__print_int">>,
            <<"byte", STORE>>, <<"byte", 255>>,
            <<"byte", STORE>>, <<"byte", 250>>,
            <<"byte", LOAD>>, <<"byte", 250>>, <<"push32", 0>>, <<"byte", LT>>,
            <<"byte", JZ32>>, <<"label_ref", not_negative_label>>,
            <<"push32", 45>>, <<"byte", SYSCALL>>, <<"byte", SYSCALL_PRINT>>,
            <<"byte", LOAD>>, <<"byte", 250>>, <<"push32", 0>>, <<"byte", SWAP>>,
            <<"byte", SUB>>, <<"byte", STORE>>, <<"byte", 250>>,
            <<"add_label", not_negative_label>>,
            <<"byte", LOAD>>, <<"byte", 250>>, <<"push32", 0>>, <<"byte", EQ>>,
            <<"byte", JZ32>>, <<"label_ref", not_zero>>,
            <<"push32", 48>>, <<"byte", SYSCALL>>, <<"byte", SYSCALL_PRINT>>,
            <<"byte", LOAD>>, <<"byte", 255>>, <<"byte", RET>>,
            <<"add_label", not_zero>>,
            <<"push32", 1>>, <<"byte", STORE>>, <<"byte", 251>>,
            <<"add_label", find_power_loop>>,
            <<"byte", LOAD>>, <<"byte", 251>>, <<"push32", 10>>, <<"byte", MUL>>,
            <<"byte", LOAD>>, <<"byte", 250>>, <<"byte", GT>>,
            <<"byte", JNZ32>>, <<"label_ref", find_power_done>>,
            <<"byte", LOAD>>, <<"byte", 251>>, <<"push32", 10>>, <<"byte", MUL>>,
            <<"byte", STORE>>, <<"byte", 251>>,
            <<"byte", JMP32>>, <<"label_ref", find_power_loop>>,
            <<"add_label", find_power_done>>,
            <<"add_label", print_loop>>,
            <<"byte", LOAD>>, <<"byte", 251>>, <<"push32", 0>>, <<"byte", GT>>,
            <<"byte", JZ32>>, <<"label_ref", print_done>>,
            <<"byte", LOAD>>, <<"byte", 250>>, <<"byte", LOAD>>, <<"byte", 251>>,
            <<"byte", DIV>>,
            <<"push32", 48>>, <<"byte", ADD>>, <<"byte", SYSCALL>>, <<"byte", SYSCALL_PRINT>>,
            <<"byte", LOAD>>, <<"byte", 250>>, <<"byte", LOAD>>, <<"byte", 251>>,
            <<"byte", MOD>>, <<"byte", STORE>>, <<"byte", 250>>,
            <<"byte", LOAD>>, <<"byte", 251>>, <<"push32", 10>>, <<"byte", DIV>>,
            <<"byte", STORE>>, <<"byte", 251>>,
            <<"byte", JMP32>>, <<"label_ref", print_loop>>,
            <<"add_label", print_done>>,
            <<"byte", LOAD>>, <<"byte", 255>>, <<"byte", RET>> >>)

RECURSIVE emit_string_literals(_, _)
emit_string_literals(n, literals) ==
    IF literals = << >> \/ n.panicked THEN n
    ELSE emit_string_literals(
            emit_byte([add_label(n, Head(literals)[1]) EXCEPT
                          !.bytecode = @ \o Head(literals)[2]], 0),
            Tail(literals))

\* bytecode[pos..pos + 4].copy_from_slice(bytes)
copy_from_slice(bytes, pos, patch) ==
    [i \in 1..Len(bytes) |->
        IF i > pos /\ i <= pos + Len(patch) THEN patch[i - pos] ELSE bytes[i]]

RECURSIVE patch_labels(_, _)
patch_labels(n, patches) ==
    IF patches = << >> \/ n.panicked THEN n
    ELSE LET pos == Head(patches)[1]
             label == Head(patches)[2]
         IN  patch_labels(
                IF label \in DOMAIN n.labels
                THEN [n EXCEPT !.bytecode = copy_from_slice(@, pos, to_be_bytes(n.labels[label]))]
                ELSE [n EXCEPT !.unresolved = Append(@, label)],
                Tail(patches))

(***************************************************************************)
(* pe/codegen.rs: CodeGen, as main.rs creates it (target "pe").  `saved`   *)
(* is the stack of code positions the active emitters hold in their local  *)
(* variables (else_jump_pos, end_jump_pos, loop_start, ...), innermost     *)
(* last.  `frames` is a history of the variable map at the moment the body *)
(* of an inlined function starts, `jumps` a history of the forward jumps   *)
(* of if and for statements.                                               *)
(***************************************************************************)
CodeGenNew ==
    [code |-> << >>, variables |-> EmptyMap, stack_offset |-> 0, in_main |-> FALSE,
     saved |-> << >>, frames |-> << >>, jumps |-> << >>, strings |-> << >>,
     panicked |-> FALSE,
     depth |-> 0, overflow |-> FALSE]

\* i32 (or the u32 of the same bit pattern) -> the four bytes of to_le_bytes()
to_le_bytes(value) ==
    <<value % 256, (value \div 256) % 256, (value \div 65536) % 256,
      (value \div 16777216) % 256>>

\* i64 -> the eight bytes of to_le_bytes(), for values of the i32 range (sign extended)
to_le_bytes64(value) ==
    to_le_bytes(value) \o (IF value < 0 THEN <<255, 255, 255, 255>> ELSE <<0, 0, 0, 0>>)

emit(c, bytes) == IF c.panicked THEN c ELSE [c EXCEPT !.code = @ \o bytes]
emit_i32(c, value) == emit(c, to_le_bytes(value))
emit_i64(c, value) == emit(c, to_le_bytes64(value))
patch_i32(c, pos, value) ==
    IF c.panicked THEN c ELSE [c EXCEPT !.code = copy_from_slice(@, pos, to_le_bytes(value))]

\* consecutive emit / emit_i32 calls
RECURSIVE emits(_, _)
emits(c, chunks) ==
    IF chunks = << >> \/ c.panicked THEN c ELSE emits(emit(c, Head(chunks)), Tail(chunks))

\* let pos = self.code.len();
SavePos(c) == [c EXCEPT !.saved = Append(@, Len(c.code))]

\* the position saved k-th from the innermost
Saved(c, k) == c.saved[Len(c.saved) - k + 1]

\* the k innermost saved positions go out of scope
DropSaved(c, k) == [c EXCEPT !.saved = SubSeq(@, 1, Len(@) - k)]

\* faulty variant: the displacement counted from the operand's first byte
PatchSavedFromOperand(c, k) == patch_i32(c, Saved(c, k), Len(c.code) - Saved(c, k))

\* let offset = (self.code.len() as i32) - (pos as i32) - 4; self.patch_i32(pos, offset);
PatchSaved(c, k) == patch_i32(c, Saved(c, k), Len(c.code) - Saved(c, k) - 4)

\* let back = (pos as i32) - (self.code.len() as i32) - 2; self.emit(&[op, back as u8]);
EmitBack8(c, op, k) == emit(c, <<op, (Saved(c, k) - Len(c.code) - 2) % 256>>)

emit_exit(c, code) ==
    emits(c, << <<\h48, \h83, \hEC, \h20>>,
                <<\hB9>>, to_le_bytes(code),
                <<\hFF, \h15>>, to_le_bytes(\h10000000) >>)

\* lea rdx, [rip + offset] with offset = string_addr - (code.len() + 7)
PeEmitLea(c) ==
    emits(c, << <<\h48, \h8D, \h15>>, to_le_bytes(Saved(c, 1) - (Len(c.code) + 7)) >>)

\* history: where an inline literal starts (string_addr), the bytes emitted for it, and
\* where the length handed to WriteFile is about to be emitted (after 41 B8)
PeNoteString(c, text) ==
    [c EXCEPT !.strings = Append(@, [string_addr |-> Saved(c, 1), text |-> text,
                                     length_pos |-> Len(c.code) + 2])]

\* emit_println (with_newline) and emit_print_str share their layout
PeEmitString(c, text, str_len) ==
    LET c1 == SavePos(emits(c, << <<\h48, \h83, \hEC, \h38>>,
                                  <<\hB9, \hF5, \hFF, \hFF, \hFF>>,
                                  <<\hFF, \h15>>, to_le_bytes(\h20000000),
                                  <<\h48, \h89, \hC3>>,
                                  <<\hEB>>, <<str_len % 256>> >>))
        c2 == PeEmitLea(emits(c1, << text, <<\h48, \h89, \hD9>> >>))
    IN  DropSaved(emits(PeNoteString(c2, text),
                        << <<\h41, \hB8>>, to_le_bytes(str_len),
                           <<\h4C, \h8D, \h4C, \h24, \h20>>,
                           <<\h48, \hC7, \h44, \h24, \h20, \h00, \h00, \h00, \h00>>,
                           <<\hFF, \h15>>, to_le_bytes(\h20080000),
                           <<\h48, \h83, \hC4, \h38>> >>), 1)

emit_println(c, text) == PeEmitString(c, text \o <<10>>, Len(text) + 1)
emit_print_str(c, text) == PeEmitString(c, text, Len(text))

\* emit_println_int (terminator 0x0A) and emit_print_int (terminator 0x00); the saved
\* positions are not_zero_patch, done_patch1 and loop_pos
PeEmitItoa(c, terminator) ==
    LET c1 == SavePos(emits(c, << <<\h48, \h83, \hEC, \h60>>,
                                  <<\h48, \h8D, \h4C, \h24, \h5E>>,
                                  <<\hC6, \h01, terminator>>,
                                  <<\h48, \hFF, \hC9>>,
                                  <<\h48, \h85, \hC0>>,
                                  <<\h0F, \h85>> >>))
        c2 == SavePos(emits(c1, << to_le_bytes(0), <<\hC6, \h01, \h30>>, <<\hE9>> >>))
        c4 == PatchSaved(emit_i32(c2, 0), 2)
        c5 == SavePos(emits(c4, << <<\h48, \h89, \hC2>>,
                                   <<\h48, \hC1, \hFA, \h3F>>,
                                   <<\h48, \h31, \hD0>>,
                                   <<\h48, \h29, \hD0>>,
                                   <<\h4C, \h89, \hD3>>,
                                   <<\h49, \h89, \hD3>>,
                                   <<\h41, \hB8, \h0A, \h00, \h00, \h00>> >>))
        c6 == emits(c5, << <<\h48, \h31, \hD2>>,
                           <<\h49, \hF7, \hF0>>,
                           <<\h80, \hC2, \h30>>,
                           <<\h88, \h11>>,
                           <<\h48, \hFF, \hC9>>,
                           <<\h48, \h85, \hC0>> >>)
        c7 == emits(EmitBack8(c6, \h75, 1),
                        << <<\h4D, \h85, \hDB>>,
                           <<\h79, \h03>>,
                           <<\hC6, \h01, \h2D>>,
                           <<\h48, \hFF, \hC9>>,
                           <<\h4C, \h89, \hDA>> >>)
        c8 == PatchSaved(c7, 2)
    IN  DropSaved(emits(c8, << <<\h48, \hFF, \hC1>>,
                     <<\h48, \h8D, \h44, \h24, \h60>>,
                     <<\h48, \h29, \hC8>>,
                     <<\h48, \h89, \h4C, \h24, \h28>>,
                     <<\h48, \h89, \h44, \h24, \h30>>,
                     <<\hB9, \hF5, \hFF, \hFF, \hFF>>,
                     <<\hFF, \h15>>, to_le_bytes(\h20000000),
                     <<\h48, \h89, \hC1>>,
                     <<\h48, \h8B, \h54, \h24, \h28>>,
                     <<\h4C, \h8B, \h44, \h24, \h30>>,
                     <<\h4C, \h8D, \h4C, \h24, \h38>>,
                     <<\h48, \hC7, \h44, \h24, \h20, \h00, \h00, \h00, \h00>>,
                     <<\hFF, \h15>>, to_le_bytes(\h20080000),
                     <<\h48, \h83, \hC4, \h60>> >>), 3)

emit_println_int(c) == PeEmitItoa(c, \h0A)
emit_print_int(c) == PeEmitItoa(c, \h00)

emit_print_char(c) ==
    emits(c, <<
           <<\h48, \h83, \hEC, \h48>>,
           <<\h88, \h44, \h24, \h30>>,
           <<\hB9, \hF5, \hFF, \hFF, \hFF>>,
           <<\hFF, \h15>>,
           to_le_bytes(\h20000000),
           <<\h48, \h89, \hC1>>,
           <<\h48, \h8D, \h54, \h24, \h30>>,
           <<\h41, \hB8, \h01, \h00, \h00, \h00>>,
           <<\h4C, \h8D, \h4C, \h24, \h38>>,
           <<\h48, \hC7, \h44, \h24, \h20, \h00, \h00, \h00, \h00>>,
           <<\hFF, \h15>>,
           to_le_bytes(\h20080000),
           <<\h48, \h83, \hC4, \h48>> >>)

emit_read_char(c) ==
    emits(c, <<
           <<\h48, \h83, \hEC, \h48>>,
           <<\hB9, \hF6, \hFF, \hFF, \hFF>>,
           <<\hFF, \h15>>,
           to_le_bytes(\h20000000),
           <<\h48, \h89, \hC1>>,
           <<\h48, \h8D, \h54, \h24, \h30>>,
           <<\h41, \hB8, \h01, \h00, \h00, \h00>>,
           <<\h4C, \h8D, \h4C, \h24, \h38>>,
           <<\h48, \hC7, \h44, \h24, \h20, \h00, \h00, \h00, \h00>>,
           <<\hFF, \h15>>,
           to_le_bytes(\h20100000),
           <<\h48, \h0F, \hB6, \h44, \h24, \h30>>,
           <<\h48, \h83, \hC4, \h48>> >>)

emit_flush(c) ==
    emits(c, <<
           <<\h48, \h83, \hEC, \h28>>,
           <<\hB9, \hF5, \hFF, \hFF, \hFF>>,
           <<\hFF, \h15>>,
           to_le_bytes(\h20000000),
           <<\h48, \h89, \hC1>>,
           <<\hFF, \h15>>,
           to_le_bytes(\h20180000),
           <<\h48, \h83, \hC4, \h28>> >>)

emit_read_int(c) ==
    LET c1 == SavePos(emits(c, <<
           <<\h48, \h83, \hEC, \h48>>,
           <<\hB9, \hF6, \hFF, \hFF, \hFF>>,
           <<\hFF, \h15>>,
           to_le_bytes(\h20000000),
           <<\h48, \h89, \hC1>>,
           <<\h48, \h8D, \h54, \h24, \h30>>,
           <<\h41, \hB8, \h14, \h00, \h00, \h00>>,
           <<\h4C, \h8D, \h4C, \h24, \h28>>,
           <<\h48, \hC7, \h44, \h24, \h20, \h00, \h00, \h00, \h00>>,
           <<\hFF, \h15>>,
           to_le_bytes(\h20100000),
           <<\h48, \h31, \hC0>>,
           <<\h48, \h31, \hC9>>,
           <<\h48, \h8D, \h74, \h24, \h30>>,
           <<\h80, \h3E, \h2D>>,
           <<\h75, \h07>>,
           <<\h48, \hFF, \hC1>>,
           <<\h48, \hFF, \hC6>> >>))
        c2 == emits(c1, <<
           <<\h0F, \hB6, \h1E>>,
           <<\h80, \hFB, \h30>>,
           <<\h72, \h13>>,
           <<\h80, \hFB, \h39>>,
           <<\h77, \h0F>>,
           <<\h48, \h6B, \hC0, \h0A>>,
           <<\h80, \hEB, \h30>>,
           <<\h48, \h0F, \hB6, \hDB>>,
           <<\h48, \h01, \hD8>>,
           <<\h48, \hFF, \hC6>> >>)
    IN  DropSaved(emits(EmitBack8(c2, \hEB, 1), <<
           <<\h48, \h85, \hC9>>,
           <<\h74, \h03>>,
           <<\h48, \hF7, \hD8>>,
           <<\h48, \h83, \hC4, \h48>> >>), 1)

PePanic(c) == [c EXCEPT !.panicked = TRUE]

PeBinaryOp(c, op) ==
    LET setcc(byte) == emits(c, << <<\h48, \h39, \hC8>>, <<\h0F, byte, \hC0>>,
                                   <<\h48, \h0F, \hB6, \hC0>> >>)
    IN  CASE op = "Add" -> emit(c, <<\h48, \h01, \hC8>>)
          [] op = "Sub" -> emit(c, <<\h48, \h29, \hC8>>)
          [] op = "Mul" -> emit(c, <<\h48, \h0F, \hAF, \hC1>>)
          [] op = "Div" -> emits(c, << <<\h48, \h31, \hD2>>, <<\h48, \hF7, \hF9>> >>)
          [] op = "Equal" -> setcc(\h94)
          [] op = "NotEqual" -> setcc(\h95)
          [] op = "Less" -> setcc(\h9C)
          [] op = "LessEqual" -> setcc(\h9E)
          [] op = "Greater" -> setcc(\h9F)
          [] op = "GreaterEqual" -> setcc(\h9D)
          [] op = "Mod" -> emits(c, << <<\h48, \h31, \hD2>>, <<\h48, \hF7, \hF9>>,
                                       <<\h48, \h89, \hD0>> >>)
          [] OTHER -> c

\* s1 < s2 on the bytes of two strings
RECURSIVE StrLess(_, _)
StrLess(s1, s2) ==
    IF s2 = << >> THEN FALSE
    ELSE IF s1 = << >> THEN TRUE
    ELSE IF Head(s1) # Head(s2) THEN Head(s1) < Head(s2)
    ELSE StrLess(Tail(s1), Tail(s2))

\* mov [rbp+stack_offset], rax after `stack_offset -= 8; variables.insert(name, ..)`
PeBindSlot(c, name) ==
    emit_i32(emit([c EXCEPT !.stack_offset = @ - 8,
                            !.variables = MapInsert(@, name, c.stack_offset - 8)],
                  <<\h48, \h89, \h85>>),
             c.stack_offset - 8)

\* if let Some(&offset) = self.variables.get(name) { emit(op); emit_i32(offset) }
PeVarAccess(c, op, name) ==
    IF name \in DOMAIN c.variables THEN emit_i32(emit(c, op), c.variables[name]) ELSE c

\* the tail of Statement::Return
PeReturnTail(c) ==
    IF c.in_main
    THEN emits(c, << <<\h89, \hC1>>, <<\h48, \h83, \hEC, \h20>>,
                     <<\hFF, \h15>>, to_le_bytes(\h10000000) >>)
    ELSE c

\* faulty variant: the backward displacement counted to the operand's first byte
EmitBack32Short(c, k) == emit_i32(c, Saved(c, k) - Len(c.code))

\* let back_offset = (loop_start as i32) - (self.code.len() as i32) - 4; emit_i32(back_offset)
EmitBack32(c, k) == emit_i32(c, Saved(c, k) - Len(c.code) - 4)

\* history: the two positions an if or a for with a condition holds when it ends
PeNoteJump(c, kind) ==
    [c EXCEPT !.jumps = Append(@, [kind |-> kind, first |-> Saved(c, 2),
                                   second |-> Saved(c, 1), end |-> Len(c.code)])]

\* history: the loop head and the end of a for without condition
PeNoteLoop(c) ==
    [c EXCEPT !.jumps = Append(@, [kind |-> "loop", first |-> Saved(c, 1),
                                   second |-> Len(c.code) - 4, end |-> Len(c.code)])]

\* history: the variable map with which an inlined body starts
PeNoteFrame(c, symbol, params, saved_offset) ==
    [c EXCEPT !.frames = Append(@, [symbol |-> symbol, params |-> params,
                                    variables |-> c.variables,
                                    stack_offset |-> c.stack_offset,
                                    saved_offset |-> saved_offset])]

\* imul rax, rax, 8; add rax, base_offset; add rax, rbp
PeElementAddress(c, base_offset) ==
    emit(IF base_offset >= -128 /\ base_offset < 128
         THEN emits(c, << <<\h48, \h6B, \hC0, \h08>>,
                          <<\h48, \h83, \hC0, (base_offset + 256) % 256>> >>)
         ELSE emit_i32(emits(c, << <<\h48, \h6B, \hC0, \h08>>, <<\h48, \h05>> >>),
                       base_offset),
         <<\h48, \h01, \hE8>>)

\* for i in 0..*size: mov qword [rbp + stack_offset + 8 i], 0
RECURSIVE PeZeroArray(_, _, _)
PeZeroArray(c, i, size) ==
    IF i >= size THEN c
    ELSE PeZeroArray(emit_i32(emit_i32(emit(c, <<\h48, \hC7, \h85>>),
                                       c.stack_offset + (i * 8)), 0),
                     i + 1, size)

RECURSIVE PeGenerateExpression(_, _, _), PeGenerateStatement(_, _, _),
          PeGenerateStatements(_, _, _), PeBindArgs(_, _, _, _, _), PeInline(_, _, _, _, _),
          generate_iperine_call(_, _, _, _),
          generate_module_call(_, _, _, _, _)
PeGenerateExpression(c, prog, e) ==
    CASE e.tag = "Number" ->
            IF "hi" \in DOMAIN e
            THEN emit_i32(emit_i32(emit(c, <<\h48, \hB8>>), e.n), e.hi)
            ELSE emit_i64(emit(c, <<\h48, \hB8>>), e.n)
      [] e.tag = "Identifier" -> PeVarAccess(c, <<\h48, \h8B, \h85>>, e.name)
      [] e.tag = "Binary" ->
            PeBinaryOp(emit(PeGenerateExpression(
                              emit(PeGenerateExpression(c, prog, e.right), <<\h50>>),
                              prog, e.left), <<\h59>>),
                       e.op)
      [] e.tag = "Unary" ->
            emits(PeGenerateExpression(c, prog, e.operand),
                  IF e.op = "Neg" THEN << <<\h48, \hF7, \hD8>> >>
                  ELSE << <<\h48, \h85, \hC0>>, <<\h0F, \h94, \hC0>>,
                          <<\h48, \h0F, \hB6, \hC0>> >>)
      [] e.tag = "Call" ->
            IF e.function = "exit" THEN emit_exit(c, 0)
            ELSE IF e.function = "println" THEN
                IF e.args # << >>
                THEN IF e.args[1].tag = "String" THEN emit_println(c, e.args[1].s)
                     ELSE emit_println_int(PeGenerateExpression(c, prog, e.args[1]))
                ELSE c
            ELSE IF e.function = "len" /\ Len(e.args) = 1 THEN
                IF e.args[1].tag = "String"
                THEN emit_i64(emit(c, <<\h48, \hB8>>), Len(e.args[1].s))
                ELSE emit(c, <<\h48, \h31, \hC0>>)
            ELSE IF e.function = "concat" /\ Len(e.args) = 2 THEN emit(c, <<\h48, \h31, \hC0>>)
            ELSE IF e.function = "compare" /\ Len(e.args) = 2 THEN
                IF e.args[1].tag = "String" /\ e.args[2].tag = "String"
                THEN emit_i64(emit(c, <<\h48, \hB8>>),
                              IF e.args[1].s = e.args[2].s THEN 0
                              ELSE IF StrLess(e.args[1].s, e.args[2].s) THEN -1 ELSE 1)
                ELSE emit(c, <<\h48, \h31, \hC0>>)
            ELSE generate_iperine_call(c, prog, e.function, e.args)
      [] e.tag = "ArrayAccess" ->
            LET c1 == PeGenerateExpression(c, prog, e.index)
            IN  IF e.name \in DOMAIN c1.variables
                THEN emit(PeElementAddress(c1, c1.variables[e.name]), <<\h48, \h8B, \h00>>)
                ELSE c1
      [] e.tag = "ModuleCall" -> generate_module_call(c, prog, e.module, e.function, e.args)
      [] OTHER -> c

PeGenerateStatements(c, prog, stmts) ==
    IF stmts = << >> \/ c.panicked THEN c
    ELSE PeGenerateStatements(PeGenerateStatement(c, prog, Head(stmts)), prog, Tail(stmts))

PeGenerateStatement(c, prog, stmt) ==
    CASE stmt.tag = "VarDecl" ->
            IF stmt.value # None
            THEN PeBindSlot(PeGenerateExpression(c, prog, stmt.value[1]), stmt.name)
            ELSE c
      [] stmt.tag = "ArrayDecl" ->
            PeZeroArray([c EXCEPT !.stack_offset = @ - (stmt.size * 8),
                                  !.variables = MapInsert(@, stmt.name,
                                                          c.stack_offset - (stmt.size * 8))],
                        0, stmt.size)
      [] stmt.tag = "ArrayAssignment" ->
            LET c1 == PeGenerateExpression(
                          emit(PeGenerateExpression(c, prog, stmt.value), <<\h50>>),
                          prog, stmt.index)
            IN  IF stmt.name \in DOMAIN c1.variables
                THEN emits(PeElementAddress(c1, c1.variables[stmt.name]),
                           << <<\h59>>, <<\h48, \h89, \h08>> >>)
                ELSE c1
      [] stmt.tag = "Assignment" ->
            PeVarAccess(PeGenerateExpression(c, prog, stmt.value), <<\h48, \h89, \h85>>,
                        stmt.name)
      [] stmt.tag = "Return" ->
            PeReturnTail(IF stmt.value # None THEN PeGenerateExpression(c, prog, stmt.value[1])
                         ELSE emit(c, <<\h48, \h31, \hC0>>))
      [] stmt.tag = "Expression" -> PeGenerateExpression(c, prog, stmt.expr)
      [] stmt.tag = "If" ->
            \* saved: else_jump_pos, end_jump_pos
            LET c1 == emits(PeGenerateExpression(c, prog, stmt.condition),
                            << <<\h48, \h85, \hC0>>, <<\h0F, \h84>> >>)
                c2 == PeGenerateStatements(emit_i32(SavePos(c1), 0), prog, stmt.then_body)
                c4 == emit_i32(SavePos(emit(c2, <<\hE9>>)), 0)
                c6 == PeGenerateStatements(PatchSaved(c4, 2), prog,
                          IF stmt.else_body # None THEN stmt.else_body[1] ELSE << >>)
            IN  DropSaved(PeNoteJump(PatchSaved(c6, 1),
                                     IF stmt.else_body # None THEN "ifelse" ELSE "if"), 2)
      [] stmt.tag = "For" ->
            \* saved: loop_start, end_jump_pos
            IF stmt.condition # None
            THEN LET c1 == emits(PeGenerateExpression(SavePos(c), prog, stmt.condition[1]),
                                 << <<\h48, \h85, \hC0>>, <<\h0F, \h84>> >>)
                     c2 == PeGenerateStatements(emit_i32(SavePos(c1), 0), prog, stmt.body)
                     c4 == EmitBack32(emit(c2, <<\hE9>>), 2)
                 IN  DropSaved(PeNoteJump(PatchSaved(c4, 1), "for"), 2)
            ELSE DropSaved(PeNoteLoop(EmitBack32(emit(PeGenerateStatements(SavePos(c), prog,
                                                                          stmt.body),
                                                     <<\hE9>>), 1)), 1)
      [] OTHER -> c

\* for (i, arg) in args.iter().enumerate() { if i < func.params.len() { ... } }
PeBindArgs(c, prog, func, args, i) ==
    IF i > Len(args) \/ c.panicked THEN c
    ELSE PeBindArgs(IF i <= Len(func.params)
                    THEN PeBindSlot(PeGenerateExpression(c, prog, args[i]), func.params[i])
                    ELSE c,
                    prog, func, args, i + 1)

\* what was saved at the start of a call inliner is restored at its end
PeRestore(c, saved) ==
    [c EXCEPT !.variables = saved.variables, !.stack_offset = saved.stack_offset,
              !.in_main = saved.in_main, !.depth = saved.depth]

\* the part both call inliners share: save, bind the arguments, emit the body, restore;
\* an inlining that nests without end exhausts the stack of the compiler
PeInline(c, prog, symbol, found, args) ==
    IF c.panicked THEN c
    ELSE IF c.depth >= MaxInline THEN [c EXCEPT !.panicked = TRUE, !.overflow = TRUE]
    ELSE PeRestore(
            PeGenerateStatements(
                PeNoteFrame(PeBindArgs([c EXCEPT !.in_main = FALSE, !.depth = @ + 1],
                                       prog, found, args, 1),
                            symbol, found.params, c.stack_offset),
                prog, found.body),
            c)

generate_iperine_call(c, prog, function, args) ==
    IF FindFunction(prog.functions, function) # None
    THEN PeInline(c, prog, function, FindFunction(prog.functions, function)[1], args)
    ELSE c

generate_module_call(c, prog, module, function, args) ==
    IF module = "stdio" /\ function = "Println" /\ Len(args) = 1
    THEN emit_println_int(PeGenerateExpression(c, prog, args[1]))
    ELSE IF module = "stdio" /\ function = "Print" /\ Len(args) = 1
    THEN emit_print_int(PeGenerateExpression(c, prog, args[1]))
    ELSE IF module = "stdio" /\ function = "PrintlnStr" /\ Len(args) = 1
    THEN IF args[1].tag = "String" THEN emit_println(c, args[1].s) ELSE c
    ELSE IF module = "stdio" /\ function = "PrintStr" /\ Len(args) = 1
    THEN IF args[1].tag = "String" THEN emit_print_str(c, args[1].s) ELSE c
    ELSE IF module = "stdio" /\ function = "PrintChar" /\ Len(args) = 1
    THEN emit_print_char(PeGenerateExpression(c, prog, args[1]))
    ELSE IF module = "stdio" /\ function = "ReadInt" /\ args = << >> THEN emit_read_int(c)
    ELSE IF module = "stdio" /\ function = "ReadChar" /\ args = << >> THEN emit_read_char(c)
    ELSE IF module = "stdio" /\ function = "Flush" /\ args = << >> THEN emit_flush(c)
    ELSE IF module \notin DOMAIN prog.modules THEN PePanic(c)
    ELSE IF FindFunction(prog.modules[module].functions, function) = None THEN PePanic(c)
    ELSE IF ~FindFunction(prog.modules[module].functions, function)[1].is_exported
    THEN PePanic(c)
    ELSE PeInline(c, prog, MangleSymbol(module, function),
                  FindFunction(prog.modules[module].functions, function)[1], args)

\* CodeGen::generate for the "pe" target; the result is MachineCode.code
PeGenerate(c, prog) ==
    LET main_func == FindFunction(prog.functions, "main")
    IN  IF main_func = None THEN PePanic(c)
        ELSE LET c1 == emits([c EXCEPT !.in_main = TRUE],
                             << <<\h55>>, <<\h48, \h89, \hE5>>, <<\h48, \h83, \hEC, \h40>> >>)
                 c2 == PeGenerateStatements(PeNoteFrame(c1, "main", << >>, 0), prog,
                                            main_func[1].body)
             IN  emit_exit(c2, 0)

(***************************************************************************)
(* pe/pe_writer.rs: PEWriter.  The file is the byte vector `buffer`.       *)
(***************************************************************************)
IMAGE_DOS_SIGNATURE == \h5A4D
IMAGE_NT_SIGNATURE == \h00004550
IMAGE_FILE_MACHINE_AMD64 == \h8664

\* image_base 0x140000000 is kept as its two 32-bit halves <<high, low>>
PEWriterNew == [image_base |-> <<\h1, \h40000000>>, section_alignment |-> \h1000,
                file_alignment |-> \h200]

\* u16 -> the two bytes of to_le_bytes()
to_le_bytes16(value) == <<value % 256, (value \div 256) % 256>>

\* [0u8; n]
Zeros(n) == [i \in 1..n |-> 0]

\* while buffer.len() % alignment != 0 { buffer.push(0) }
PadTo(buffer, alignment) == buffer \o Zeros((alignment - (Len(buffer) % alignment)) % alignment)

\* (value + alignment - 1) & !(alignment - 1), alignment a power of two
align(value, alignment) == ((value + alignment - 1) \div alignment) * alignment

\* i32::from_le_bytes of the four bytes at 0-based position pos
from_le_bytes(bytes, pos) ==
    bytes[pos + 1] + 256 * bytes[pos + 2] + 65536 * bytes[pos + 3]
    + 16777216 * (IF bytes[pos + 4] >= 128 THEN bytes[pos + 4] - 256 ELSE bytes[pos + 4])

IsImportPlaceholder(code, i) ==
    /\ code[i + 1] = \hFF
    /\ code[i + 2] = \h15
    /\ from_le_bytes(code, i + 2) \in {\h20000000, \h20080000, \h10000000}

\* machine_code.code.windows(6).any(..)
has_imports(code) == \E i \in 0..(Len(code) - 6) : IsImportPlaceholder(code, i)

\* faulty variant: e_lfanew left pointing at the DOS stub
write_dos_header_stub ==
    to_le_bytes16(IMAGE_DOS_SIGNATURE) \o Zeros(58) \o to_le_bytes(\h40)

write_dos_header ==
    to_le_bytes16(IMAGE_DOS_SIGNATURE) \o <<\h90, \h00>> \o <<\h03, \h00>> \o <<\h00, \h00>>
    \o <<\h04, \h00>> \o <<\h00, \h00>> \o <<\hFF, \hFF>> \o <<\h00, \h00>>
    \o <<\hB8, \h00>> \o <<\h00, \h00>> \o <<\h00, \h00>> \o <<\h00, \h00>>
    \o <<\h40, \h00>> \o <<\h00, \h00>> \o Zeros(8) \o <<\h00, \h00>> \o <<\h00, \h00>>
    \o Zeros(20) \o to_le_bytes(\h80)

write_dos_stub ==
    <<\h0E, \h1F, \hBA, \h0E, \h00, \hB4, \h09, \hCD,
      \h21, \hB8, \h01, \h4C, \hCD, \h21, \h54, \h68,
      \h69, \h73, \h20, \h70, \h72, \h6F, \h67, \h72,
      \h61, \h6D, \h20, \h63, \h61, \h6E, \h6E, \h6F,
      \h74, \h20, \h62, \h65, \h20, \h72, \h75, \h6E,
      \h20, \h69, \h6E, \h20, \h44, \h4F, \h53, \h20,
      \h6D, \h6F, \h64, \h65, \h2E, \h0D, \h0D, \h0A,
      \h24, \h00, \h00, \h00, \h00, \h00, \h00, \h00>>

write_coff_header(num_sections) ==
    to_le_bytes16(IMAGE_FILE_MACHINE_AMD64) \o to_le_bytes16(num_sections)
    \o to_le_bytes(0) \o to_le_bytes(0) \o to_le_bytes(0)
    \o to_le_bytes16(\hF0) \o to_le_bytes16(\h0022)

write_optional_header(w, code_size, import_size) ==
    LET total_sections_size ==
            IF import_size > 0
            THEN align(code_size, w.section_alignment) + align(import_size, w.section_alignment)
            ELSE align(code_size, w.section_alignment)
        image_size == \h1000 + total_sections_size
        import_rva == \h1000 + align(code_size, w.section_alignment)
    IN  to_le_bytes16(\h20B) \o <<14>> \o <<0>>
        \o to_le_bytes(code_size) \o to_le_bytes(import_size) \o to_le_bytes(0)
        \o to_le_bytes(\h1000) \o to_le_bytes(\h1000)
        \o to_le_bytes(w.image_base[2]) \o to_le_bytes(w.image_base[1])
        \o to_le_bytes(w.section_alignment) \o to_le_bytes(w.file_alignment)
        \o to_le_bytes16(6) \o to_le_bytes16(0) \o to_le_bytes16(0) \o to_le_bytes16(0)
        \o to_le_bytes16(6) \o to_le_bytes16(0) \o to_le_bytes(0)
        \o to_le_bytes(image_size) \o to_le_bytes(\h200) \o to_le_bytes(0)
        \o to_le_bytes16(3) \o to_le_bytes16(\h0140)
        \o to_le_bytes64(\h100000) \o to_le_bytes64(\h1000)
        \o to_le_bytes64(\h100000) \o to_le_bytes64(\h1000)
        \o to_le_bytes(0) \o to_le_bytes(16)
        \o to_le_bytes(0) \o to_le_bytes(0)
        \o (IF import_size > 0 THEN to_le_bytes(import_rva) \o to_le_bytes(import_size)
            ELSE to_le_bytes(0) \o to_le_bytes(0))
        \o Zeros(14 * 8)

write_section_headers(w, code_size, import_size, num_sections) ==
    LET idata_rva == \h1000 + align(code_size, w.section_alignment)
        idata_offset == \h200 + code_size
    IN  <<\h2E, \h74, \h65, \h78, \h74, \h00, \h00, \h00>>
        \o to_le_bytes(code_size) \o to_le_bytes(\h1000) \o to_le_bytes(code_size)
        \o to_le_bytes(\h200) \o to_le_bytes(0) \o to_le_bytes(0)
        \o to_le_bytes16(0) \o to_le_bytes16(0) \o to_le_bytes(\h60000020)
        \o (IF num_sections > 1
            THEN <<\h2E, \h69, \h64, \h61, \h74, \h61, \h00, \h00>>
                 \o to_le_bytes(import_size) \o to_le_bytes(idata_rva)
                 \o to_le_bytes(import_size) \o to_le_bytes(idata_offset)
                 \o to_le_bytes(0) \o to_le_bytes(0)
                 \o to_le_bytes16(0) \o to_le_bytes16(0) \o to_le_bytes(-\h3FFFFFC0)
            ELSE << >>)

\* data[offset..offset+len].copy_from_slice(..) for each (offset, bytes) pair
RECURSIVE PatchAll(_, _)
PatchAll(data, patches) ==
    IF patches = << >> THEN data
    ELSE PatchAll(copy_from_slice(data, Head(patches)[1], Head(patches)[2]), Tail(patches))

build_import_data(w) ==
    LET base_rva == \h1000 + w.section_alignment
        descriptor_offset == 0
        d1 == Zeros(40)
        name_rva == base_rva + Len(d1)
        d2 == PadTo(d1 \o <<\h4B, \h45, \h52, \h4E, \h45, \h4C, \h33, \h32, \h2E, \h64, \h6C, \h6C, \h00>>, 2)
        ilt_rva == base_rva + Len(d2)
        ilt_start == Len(d2)
        d3 == d2 \o Zeros(32)
        iat_rva == base_rva + Len(d3)
        iat_start == Len(d3)
        d4 == d3 \o Zeros(32)
        pos1 == Len(d4) + base_rva
        d5 == PadTo(d4 \o to_le_bytes16(0) \o <<\h47, \h65, \h74, \h53, \h74, \h64, \h48, \h61, \h6E, \h64, \h6C, \h65, \h00>>, 2)
        pos2 == Len(d5) + base_rva
        d6 == PadTo(d5 \o to_le_bytes16(0) \o <<\h57, \h72, \h69, \h74, \h65, \h46, \h69, \h6C, \h65, \h00>>, 2)
        pos3 == Len(d6) + base_rva
        d7 == PadTo(d6 \o to_le_bytes16(0) \o <<\h45, \h78, \h69, \h74, \h50, \h72, \h6F, \h63, \h65, \h73, \h73, \h00>>, 2)
        hint_name_rvas == <<pos1, pos2, pos3>>
    IN  PatchAll(d7,
            << <<ilt_start, to_le_bytes64(hint_name_rvas[1])>>,
               <<iat_start, to_le_bytes64(hint_name_rvas[1])>>,
               <<ilt_start + 8, to_le_bytes64(hint_name_rvas[2])>>,
               <<iat_start + 8, to_le_bytes64(hint_name_rvas[2])>>,
               <<ilt_start + 16, to_le_bytes64(hint_name_rvas[3])>>,
               <<iat_start + 16, to_le_bytes64(hint_name_rvas[3])>>,
               <<descriptor_offset, to_le_bytes(ilt_rva)>>,
               <<descriptor_offset + 4, to_le_bytes(0)>>,
               <<descriptor_offset + 8, to_le_bytes(-1)>>,
               <<descriptor_offset + 12, to_le_bytes(name_rva)>>,
               <<descriptor_offset + 16, to_le_bytes(iat_rva)>> >>)

\* for i in 0..code.len().saturating_sub(5): the patches are applied in place, one by
\* one; indices whose two bytes are not FF 15 change nothing and are skipped in one step
RECURSIVE PatchImportsFrom(_, _, _)
PatchImportsFrom(code, i, iat_rva) ==
    LET hits == {j \in i..(Len(code) - 6) : code[j + 1] = \hFF /\ code[j + 2] = \h15}
    IN  IF hits = {} THEN code
        ELSE LET k == CHOOSE j \in hits : \A h \in hits : j <= h
                 placeholder == from_le_bytes(code, k + 2)
                 instr_end == k + 6
                 target_rva == instr_end + \h1000
                 offset == IF placeholder = \h20000000 THEN iat_rva - target_rva
                           ELSE IF placeholder = \h20080000 THEN (iat_rva + 8) - target_rva
                           ELSE (iat_rva + 16) - target_rva
             IN  IF placeholder \in {\h20000000, \h20080000, \h10000000}
                 THEN PatchImportsFrom(copy_from_slice(code, k + 2, to_le_bytes(offset)),
                                       k + 1, iat_rva)
                 ELSE PatchImportsFrom(code, k + 1, iat_rva)

patch_import_addresses(w, code, code_size) ==
    LET idata_rva == \h1000 + align(code_size, w.section_alignment)
        iat_rva == idata_rva + 40 + 14 + 32
    IN  PatchImportsFrom(code, 0, iat_rva)

\* PEWriter::write: the bytes handed to file.write_all
write(w, code) ==
    LET import_data == IF has_imports(code) THEN build_import_data(w) ELSE << >>
        import_size == IF import_data = << >> THEN 0
                       ELSE align(Len(import_data), w.file_alignment)
        num_sections == IF import_size > 0 THEN 2 ELSE 1
        b1 == write_dos_header \o write_dos_stub
        b2 == b1 \o Zeros(IF Len(b1) < \h80 THEN \h80 - Len(b1) ELSE 0)
        b3 == b2 \o to_le_bytes(IMAGE_NT_SIGNATURE) \o write_coff_header(num_sections)
        code_size == align(Len(code), w.file_alignment)
        b4 == b3 \o write_optional_header(w, code_size, import_size)
                 \o write_section_headers(w, code_size, import_size, num_sections)
        b5 == PadTo(b4, w.file_alignment)
        patched_code == IF import_size > 0 THEN patch_import_addresses(w, code, code_size)
                        ELSE code
        b6 == PadTo(b5 \o patched_code, w.file_alignment)
    IN  IF import_size > 0 THEN PadTo(b6 \o import_data, w.file_alignment) ELSE b6

\* the bytes an NVM instruction occupies, opcode included
NvmInstrLen(op) ==
    IF op \in {PUSH32, JMP32, JZ32, JNZ32, CALL32} THEN 5
    ELSE IF op \in {LOAD, STORE, SYSCALL} THEN 2 ELSE 1

(***************************************************************************)
(* The reference NVM of the opcode table: a 32-bit stack machine.  CALL32  *)
(* pushes the return offset on the data stack and RET pops it, which is    *)
(* the convention __print_int relies on (it stores the top of the stack in *)
(* slot 255 and pushes it back before RET).  A binary operation pops b,    *)
(* then a, and pushes a op b.  SYSCALL PRINT pops one value and appends    *)
(* its low byte to the output.                                             *)
(***************************************************************************)
Signed16(x) == IF x % 65536 >= 32768 THEN (x % 65536) - 65536 ELSE x % 65536
\* the i32 with the given high and low 16-bit halves
Pack32(high, low) == Signed16(high) * 65536 + (low % 65536)
High16(a) == a \div 65536
Low16(a) == a % 65536

\* wrapping 32-bit arithmetic, computed on halves so that no intermediate leaves 32 bits
Add32(a, b) == Pack32(High16(a) + High16(b) + (Low16(a) + Low16(b)) \div 65536,
                      Low16(a) + Low16(b))
Sub32(a, b) == Pack32(High16(a) - High16(b) + (Low16(a) - Low16(b)) \div 65536,
                      Low16(a) - Low16(b))
MulByte32(a, k) == Pack32(High16(a) * k + (Low16(a) * k) \div 65536, Low16(a) * k)
Shl8(a) == Pack32(High16(a) * 256 + Low16(a) \div 256, Low16(a) * 256)
Mul32(a, b) ==
    Add32(MulByte32(a, b % 256),
          Shl8(Add32(MulByte32(a, (b \div 256) % 256),
                     Shl8(Add32(MulByte32(a, (b \div 65536) % 256),
                                Shl8(MulByte32(a, (b \div 16777216) % 256)))))))
\* signed division truncates toward zero
Div32(a, b) ==
    IF b > 0 THEN (IF a >= 0 THEN a \div b ELSE Sub32(0, Sub32(0, a) \div b))
    ELSE (IF a >= 0 THEN Sub32(0, a \div Sub32(0, b)) ELSE Sub32(0, a) \div Sub32(0, b))
Mod32(a, b) == a - b * Div32(a, b)

\* i32::from_be_bytes of the four bytes at 0-based position pos
Imm32(image, pos) ==
    Pack32(256 * image[pos + 1] + image[pos + 2], 256 * image[pos + 3] + image[pos + 4])

VmNew(image) == [image |-> image, ip |-> 4, stack |-> << >>, locals |-> EmptyMap,
                 out |-> << >>, status |-> "running"]
VmTrap(v) == [v EXCEPT !.status = "trap"]
VmTop(v, k) == v.stack[Len(v.stack) + 1 - k]
VmPop(v, k) == SubSeq(v.stack, 1, Len(v.stack) - k)
\* replace the top k values by the values in `pushed` and move on by `len` bytes
VmNext(v, k, pushed, len) == [v EXCEPT !.stack = VmPop(v, k) \o pushed, !.ip = @ + len]
VmJump(v, k, to) == [v EXCEPT !.stack = VmPop(v, k), !.ip = to]
VmBool(b) == IF b THEN 1 ELSE 0
\* the values an instruction pops
VmArity(op) ==
    IF op \in {ADD, SUB, MUL, DIV, MOD, EQ, NEQ, GT, LT, SWAP} THEN 2
    ELSE IF op \in {POP, JZ32, JNZ32, RET, STORE, SYSCALL} THEN 1 ELSE 0

\* one instruction
VmExecute(v) ==
    LET op == IF v.ip < Len(v.image) THEN v.image[v.ip + 1] ELSE 0
        a == VmTop(v, 2)
        b == VmTop(v, 1)
    IN  IF v.ip < 4 \/ v.ip + NvmInstrLen(op) > Len(v.image) \/ Len(v.stack) < VmArity(op)
        THEN VmTrap(v)
        ELSE CASE op = PUSH32 -> VmNext(v, 0, <<Imm32(v.image, v.ip + 1)>>, 5)
               [] op = POP -> VmNext(v, 1, << >>, 1)
               [] op = SWAP -> VmNext(v, 2, <<b, a>>, 1)
               [] op = ADD -> VmNext(v, 2, <<Add32(a, b)>>, 1)
               [] op = SUB -> VmNext(v, 2, <<Sub32(a, b)>>, 1)
               [] op = MUL -> VmNext(v, 2, <<Mul32(a, b)>>, 1)
               [] op = DIV -> IF b = 0 THEN VmTrap(v) ELSE VmNext(v, 2, <<Div32(a, b)>>, 1)
               [] op = MOD -> IF b = 0 THEN VmTrap(v) ELSE VmNext(v, 2, <<Mod32(a, b)>>, 1)
               [] op = EQ -> VmNext(v, 2, <<VmBool(a = b)>>, 1)
               [] op = NEQ -> VmNext(v, 2, <<VmBool(a # b)>>, 1)
               [] op = GT -> VmNext(v, 2, <<VmBool(a > b)>>, 1)
               [] op = LT -> VmNext(v, 2, <<VmBool(a < b)>>, 1)
               [] op = JMP32 -> VmJump(v, 0, Imm32(v.image, v.ip + 1))
               [] op = JZ32 -> VmJump(v, 1, IF b = 0 THEN Imm32(v.image, v.ip + 1)
                                            ELSE v.ip + 5)
               [] op = JNZ32 -> VmJump(v, 1, IF b # 0 THEN Imm32(v.image, v.ip + 1)
                                             ELSE v.ip + 5)
               [] op = CALL32 -> [v EXCEPT !.stack = Append(@, v.ip + 5),
                                           !.ip = Imm32(v.image, v.ip + 1)]
               [] op = RET -> VmJump(v, 1, b)
               [] op = LOAD ->
                    VmNext(v, 0, <<IF v.image[v.ip + 2] \in DOMAIN v.locals
                                   THEN v.locals[v.image[v.ip + 2]] ELSE 0>>, 2)
               [] op = STORE ->
                    [VmNext(v, 1, << >>, 2) EXCEPT
                        !.locals = MapInsert(@, v.image[v.ip + 2], b)]
               [] op = SYSCALL ->
                    IF v.image[v.ip + 2] = SYSCALL_PRINT
                    THEN [VmNext(v, 1, << >>, 2) EXCEPT !.out = Append(@, b % 256)]
                    ELSE IF v.image[v.ip + 2] = SYSCALL_EXIT
                    THEN [VmNext(v, 1, << >>, 2) EXCEPT !.status = "exited"]
                    ELSE VmTrap(v)
               [] OTHER -> VmTrap(v)

(***************************************************************************)
(* Input programs: what parser.rs and load_modules hand to a backend.      *)
(***************************************************************************)
\* a function of k parameters p1..pk and the call that passes 1..k to it
ParamFn(k) ==
    Function("take" \o ToString(k), [i \in 1..k |-> "p" \o ToString(i)],
             << Return(Some(IF k = 0 THEN Number(0) ELSE Identifier("p1"))) >>, FALSE)
ParamCall(k) == Call("take" \o ToString(k), [i \in 1..k |-> Number(i)])

MathModule ==
    Module("math",
        << Function("Add", <<"a", "b">>,
                    << Return(Some(Binary("Add", Identifier("a"), Identifier("b")))) >>, TRUE),
           Function("helper", <<"v">>, << Return(Some(Identifier("v"))) >>, FALSE),
           Function("Twice", <<"v">>,
                    << VarDecl("w", Some(Binary("Mul", Identifier("v"), Number(2)))),
                       Return(Some(Identifier("w"))) >>, TRUE) >>)
UtilModule ==
    Module("util",
        << Function("Inc", <<"n">>,
                    << Return(Some(ModuleCall("math", "Add", <<Identifier("n"), Number(1)>>))) >>,
                    TRUE) >>)
StdioModule ==
    Module("stdio",
        << Function("Println", <<"n">>, << >>, TRUE),
           Function("Print", <<"n">>, << >>, TRUE),
           Function("PrintChar", <<"c">>, << >>, TRUE) >>)

\* the module table with the given modules, keyed by name
Modules(mods) == [k \in {mods[i].name : i \in 1..Len(mods)} |->
                     (CHOOSE m \in {mods[i] : i \in 1..Len(mods)} : m.name = k)]

\* statements nested to depth d: x = 0, if, if/else, for <cond>, for, with empty bodies too
RECURSIVE Shapes(_)
Shapes(d) ==
    LET leaf == Assignment("x", Number(0))
        cond == Binary("Less", Identifier("x"), Number(3))
    IN  IF d = 0 THEN << leaf >>
        ELSE LET inner == Shapes(d - 1)
                 n == Len(inner)
             IN  << leaf, IfStmt(cond, << >>, None), ForStmt(Some(cond), << >>) >>
                 \o [i \in 1..n |-> IfStmt(cond, << inner[i], leaf >>, None)]
                 \o [i \in 1..n |-> IfStmt(cond, << leaf >>, Some(<< inner[i] >>))]
                 \o [i \in 1..n |-> ForStmt(Some(cond), << inner[i] >>)]
                 \o [i \in 1..n |-> ForStmt(None, << leaf, inner[i] >>)]

Programs ==
    LET f == Function("f", <<"a">>, << Return(Some(Identifier("a"))) >>, FALSE)
        g == Function("g", << >>,
                      << ExpressionStmt(ModuleCall("stdio", "Println", <<Number(7)>>)) >>,
                      FALSE)
        main(body) == Function("main", << >>, body, FALSE)
        x1 == VarDecl("x", Some(Number(1)))
        y2 == VarDecl("y", Some(Number(2)))
        shapes == Shapes(NestDepth)
    IN  << Program(<< f, main(<< x1, Assignment("x", ModuleCall("math", "Add",
                                                   <<Identifier("x"), Number(2)>>)) >>) >>,
                   Modules(<< MathModule >>)),
           Program(<< main(<< ExpressionStmt(ModuleCall("math", "helper", <<Number(1)>>)) >>) >>,
                   Modules(<< MathModule >>)),
           Program(<< f, main(<< x1, ExpressionStmt(Call("f", <<Number(2)>>)) >>) >>,
                   Modules(<< >>)),
           Program(<< main(<< ExpressionStmt(ModuleCall("stdio", "Println", <<Number(5)>>)) >>) >>,
                   Modules(<< StdioModule >>)),
           Program(<< main(<< ExpressionStmt(ModuleCall("stdio", "PrintChar",
                                                        <<Number(65)>>)) >>) >>,
                   Modules(<< StdioModule >>)),
           Program(<< main(<< ExpressionStmt(Call("nope", << >>)) >>) >>, Modules(<< >>)),
           Program(<< main(<< ExpressionStmt(Call("println", <<StringLit(<<104, 105>>)>>)) >>) >>,
                   Modules(<< >>)),
           Program(<< main(<< ExpressionStmt(ModuleCall("stdio", "Println",
                                  <<ModuleCall("util", "Inc", <<Number(1)>>)>>)),
                              ExpressionStmt(Call("g", << >>)) >>), g, f >>,
                   Modules(<< MathModule, UtilModule, StdioModule >>)),
           Program(<< main(<< ExpressionStmt(ModuleCall("math", "Missing", <<Number(1)>>)) >>) >>,
                   Modules(<< MathModule >>)),
           Program(<< main(<< ExpressionStmt(ModuleCall("ghost", "Run", << >>)) >>) >>,
                   Modules(<< >>)),
           Program(<< main(<< Assignment("y", Number(1)),
                              ExpressionStmt(Binary("Add", Identifier("y"), Number(1))) >>) >>,
                   Modules(<< >>)),
           Program(<< f, main(<< x1, Return(Some(Identifier("x"))) >>) >>,
                   Modules(<< MathModule, UtilModule >>)) >>
        \o [k \in 1..(MaxParams + 1) |->
               Program(<< ParamFn(k - 1), main(<< x1, y2, ExpressionStmt(ParamCall(k - 1)) >>) >>,
                       Modules(<< >>))]
        \o [i \in 1..Len(shapes) |-> Program(<< main(<< x1, shapes[i] >>) >>, Modules(<< >>))]

(***************************************************************************)
(* main.rs: the output path.  A path is a sequence of characters.          *)
(***************************************************************************)
Ext(name) ==
    CASE name = ".per" -> <<".", "p", "e", "r">>
      [] name = ".nl" -> <<".", "n", "l">>
      [] name = ".go" -> <<".", "g", "o">>
      [] name = ".asm" -> <<".", "a", "s", "m">>
      [] name = ".bin" -> <<".", "b", "i", "n">>
      [] name = ".exe" -> <<".", "e", "x", "e">>
      [] name = ".s" -> <<".", "s">>
      [] OTHER -> << >>

\* str::ends_with
ends_with(s, suffix) ==
    Len(s) >= Len(suffix) /\ SubSeq(s, Len(s) - Len(suffix) + 1, Len(s)) = suffix

\* str::replace: every non-overlapping match of `from`, left to right
RECURSIVE replace(_, _, _)
replace(s, from, to) ==
    IF Len(s) < Len(from) THEN s
    ELSE IF SubSeq(s, 1, Len(from)) = from
         THEN to \o replace(SubSeq(s, Len(from) + 1, Len(s)), from, to)
         ELSE <<Head(s)>> \o replace(Tail(s), from, to)

\* source_file[..source_file.len()-4]; None when the subtraction or the slice panics
StripFour(s) == IF Len(s) < 4 THEN None ELSE Some(SubSeq(s, 1, Len(s) - 4))

\* the `let output_file = match target` of main; None when it panics
OutputFile(tgt, src) ==
    CASE tgt = "nvm-code" ->
            IF ends_with(src, Ext(".per")) THEN Some(replace(src, Ext(".per"), Ext(".asm")))
            ELSE Some(src \o Ext(".asm"))
      [] tgt = "novaria" ->
            IF ends_with(src, Ext(".per")) THEN Some(replace(src, Ext(".per"), Ext(".bin")))
            ELSE Some(src \o Ext(".bin"))
      [] tgt = "elf" ->
            IF ends_with(src, Ext(".per")) THEN StripFour(src)
            ELSE IF ends_with(src, Ext(".nl")) THEN StripFour(src)
            ELSE Some(src)
      [] OTHER ->
            IF ends_with(src, Ext(".per")) THEN Some(replace(src, Ext(".per"), Ext(".exe")))
            ELSE Some(replace(src, Ext(".go"), Ext(".exe")))

\* the characters of a path as one string, as a message shows them
RECURSIVE PathString(_)
PathString(path) == IF path = << >> THEN "" ELSE Head(path) \o PathString(Tail(path))

\* faulty variant: the assembly text written under the output path itself
AsmFileBare == output_file[1]

\* format!("{}.s", output_file)
AsmFile == output_file[1] \o Ext(".s")

(***************************************************************************)
(* main.rs: the backend stage.  One action per step of the selected        *)
(* generator's `generate`; a HashMap is iterated in an arbitrary order.    *)
(***************************************************************************)
Range(seq) == {seq[i] : i \in 1..Len(seq)}
AllVisited == DOMAIN program.modules \subseteq Range(visited)

\* what gcc needs to assemble and link the .s file: one definition per symbol and a
\* definition, here or in libc (@PLT), for every called symbol
AsmDefined(output) == {output[i][2] : i \in {j \in 1..Len(output) : output[j][1] = "label"}}
AsmCalled(output) == {output[i][2] : i \in {j \in 1..Len(output) : output[j][1] = "call"}}
LibcSymbols == {"printf@PLT", "putchar@PLT", "scanf@PLT", "getchar@PLT", "fgets@PLT",
                "strlen@PLT", "fflush@PLT"}
AsmLinks(output) ==
    /\ AsmCalled(output) \subseteq AsmDefined(output) \cup LibcSymbols
    /\ \A i, j \in 1..Len(output) :
          output[i][1] = "label" /\ output[j][1] = "label" /\ output[i][2] = output[j][2]
              => i = j

\* a Rust panic ends the process before anything is written
Abort == /\ pc' = "done"
         /\ outcome' = "panic"
         /\ UNCHANGED <<artifact, console>>

ElfText ==
    /\ target = "elf" /\ pc = "start"
    /\ asm' = AsmLine(asm, ".text", "", "")
    /\ pc' = "generate"
    /\ UNCHANGED <<cpu, source_file, output_file, fs, target, program, visited, fn_index, nvm, cg, artifact, console, outcome,
                   vm, ld>>

ElfModule ==
    /\ target = "elf" /\ pc = "generate"
    /\ \E module_name \in DOMAIN program.modules \ Range(visited) :
          /\ visited' = Append(visited, module_name)
          /\ asm' = IF module_name = "stdio" THEN asm
                    ELSE AsmGenerateModule(asm, module_name,
                                           program.modules[module_name].functions)
    /\ UNCHANGED <<cpu, source_file, output_file, fs, target, program, pc, fn_index, nvm, cg, artifact, console, outcome, vm, ld>>

ElfFunction ==
    /\ target = "elf" /\ pc = "generate" /\ AllVisited
    /\ fn_index <= Len(program.functions)
    /\ asm' = IF program.functions[fn_index].name # "main"
              THEN AsmGenerateUserFunction(asm, program.functions[fn_index]) ELSE asm
    /\ fn_index' = fn_index + 1
    /\ UNCHANGED <<cpu, source_file, output_file, fs, target, program, pc, visited, nvm, cg, artifact, console, outcome, vm, ld>>

ElfMain ==
    /\ target = "elf" /\ pc = "generate" /\ AllVisited
    /\ fn_index > Len(program.functions)
    /\ asm' = AsmGenerateMain(IF "stdio" \in DOMAIN program.modules
                              THEN AsmGenerateStdioFunctions(asm) ELSE asm, program)
    /\ pc' = "write"
    /\ UNCHANGED <<cpu, source_file, output_file, fs, target, program, visited, fn_index, nvm, cg, artifact, console, outcome,
                   vm, ld>>

ElfWrite ==
    /\ target = "elf" /\ pc = "write"
    /\ artifact' = Some([kind |-> "s", content |-> asm.output])
    /\ fs' = fs \cup {AsmFile}
    /\ pc' = "gcc"
    /\ UNCHANGED <<cpu, source_file, output_file, target, program, visited, fn_index, asm, nvm, cg, console, outcome, vm, ld>>

\* gcc ran: Ok(s)
ElfGcc ==
    /\ target = "elf" /\ pc = "gcc"
    /\ pc' = "done"
    /\ IF AsmLinks(asm.output)
       THEN /\ artifact' = Some([kind |-> "elf", content |-> asm.output])
            /\ fs' = (fs \cup {output_file[1]}) \ {AsmFile}
            /\ console' = console \o <<"Compilation successful", "Compilation successful">>
            /\ outcome' = "success"
       ELSE /\ console' = console \o <<"GCC failed with exit code",
                                       "Assembly file kept at: " \o PathString(AsmFile)>>
            /\ outcome' = "exit1"
            /\ UNCHANGED <<artifact, fs>>
    /\ UNCHANGED <<cpu, source_file, output_file, target, program, visited, fn_index, asm, nvm, cg, vm, ld>>

\* gcc could not be started: Err(e)
ElfGccMissing ==
    /\ target = "elf" /\ pc = "gcc"
    /\ pc' = "done"
    /\ console' = console \o <<"Failed to run gcc", "Make sure gcc is installed",
                               "Assembly file kept at: " \o PathString(AsmFile)>>
    /\ outcome' = "exit1"
    /\ UNCHANGED <<cpu, source_file, output_file, fs, target, program, visited, fn_index, asm, nvm, cg, artifact, vm, ld>>

NvmStep(n) ==
    /\ nvm' = n
    /\ IF n.panicked THEN Abort ELSE UNCHANGED <<pc, artifact, console, outcome>>

NvmMain ==
    /\ target = "novaria" /\ pc = "start"
    /\ LET n0 == [nvm EXCEPT !.bytecode = @ \o <<78, 86, 77, 48>>]
           main_func == FindFunction(program.functions, "main")
           n1 == IF main_func # None THEN NvmGenerateFunction(n0, main_func[1]) ELSE n0
       IN  /\ nvm' = n1
           /\ IF n1.panicked THEN Abort
              ELSE pc' = "generate" /\ UNCHANGED <<artifact, console, outcome>>
    /\ UNCHANGED <<cpu, source_file, output_file, fs, target, program, visited, fn_index, asm, cg, vm, ld>>

NvmFunction ==
    /\ target = "novaria" /\ pc = "generate"
    /\ fn_index <= Len(program.functions)
    /\ NvmStep(IF program.functions[fn_index].name # "main"
               THEN NvmGenerateFunction(nvm, program.functions[fn_index]) ELSE nvm)
    /\ fn_index' = fn_index + 1
    /\ UNCHANGED <<cpu, source_file, output_file, fs, target, program, visited, asm, cg, vm, ld>>

NvmModule ==
    /\ target = "novaria" /\ pc = "generate"
    /\ fn_index > Len(program.functions)
    /\ \E module_name \in DOMAIN program.modules \ Range(visited) :
          /\ visited' = Append(visited, module_name)
          /\ NvmStep(IF module_name = "stdio" THEN nvm
                     ELSE NvmGenerateModule(nvm, program.modules[module_name],
                                            program.modules[module_name].functions))
    /\ UNCHANGED <<cpu, source_file, output_file, fs, target, program, fn_index, asm, cg, vm, ld>>

NvmFinish ==
    /\ target = "novaria" /\ pc = "generate"
    /\ fn_index > Len(program.functions) /\ AllVisited
    /\ LET n1 == IF "stdio" \in DOMAIN program.modules
                 THEN generate_print_int_vga_helper(nvm) ELSE nvm
           n2 == emit_string_literals(n1, n1.string_literals)
       IN  nvm' = patch_labels(n2, n2.label_patches)
    /\ pc' = "write"
    /\ UNCHANGED <<cpu, source_file, output_file, fs, target, program, visited, fn_index, asm, cg, artifact, console, outcome,
                   vm, ld>>

NvmWrite ==
    /\ target = "novaria" /\ pc = "write"
    /\ artifact' = Some([kind |-> "bin", content |-> nvm.bytecode])
    /\ console' = console \o [i \in 1..Len(nvm.unresolved) |-> "Warning: Unresolved label"]
                          \o <<"Compilation successful">>
    /\ fs' = fs \cup {output_file[1]}
    /\ outcome' = "success"
    /\ pc' = "done"
    /\ UNCHANGED <<cpu, source_file, output_file, target, program, visited, fn_index, asm, nvm, cg,
                   vm, ld>>

PeCodeGen ==
    /\ target = "pe" /\ pc = "start"
    /\ cg' = PeGenerate(cg, program)
    /\ IF cg'.panicked THEN Abort
       ELSE pc' = "write" /\ UNCHANGED <<artifact, console, outcome>>
    /\ UNCHANGED <<cpu, source_file, output_file, fs, target, program, visited, fn_index, asm, nvm, vm, ld>>

PeWrite ==
    /\ target = "pe" /\ pc = "write"
    /\ artifact' = Some([kind |-> "exe", content |-> write(PEWriterNew, cg.code)])
    /\ console' = Append(console, "Compilation successful")
    /\ fs' = fs \cup {output_file[1]}
    /\ outcome' = "success"
    /\ pc' = "done"
    /\ UNCHANGED <<cpu, source_file, output_file, target, program, visited, fn_index, asm, nvm, cg,
                   vm, ld>>

\* the image NvmWrite wrote is handed to the reference NVM
VmLoad ==
    /\ target = "novaria" /\ pc = "done" /\ outcome = "success" /\ vm = None
    /\ vm' = Some(VmNew(artifact[1].content))
    /\ UNCHANGED <<cpu, source_file, output_file, fs, target, program, pc, visited, fn_index, asm, nvm, cg, artifact, console,
                   outcome, ld>>

VmStep ==
    /\ vm # None /\ vm[1].status = "running"
    /\ vm' = Some(VmExecute(vm[1]))
    /\ UNCHANGED <<cpu, source_file, output_file, fs, target, program, pc, visited, fn_index, asm, nvm, cg, artifact, console,
                   outcome, ld>>

(***************************************************************************)
(* main.rs: load_modules.  `ld` holds the files of the compilation (for    *)
(* each module name the directories that contain <name>.per, the imports   *)
(* of that file, whether it parses), the set `loaded`, and the call stack  *)
(* of load_modules: one frame per active call with its `ast` and the index *)
(* of the import its loop is at.  `reads` and `skips` are history.         *)
(***************************************************************************)
ModuleNames == {"math", "util", "stdio", "ghost"}
ModuleFunctions(name) ==
    CASE name = "math" -> MathModule.functions
      [] name = "util" -> UtilModule.functions
      [] name = "stdio" -> StdioModule.functions
      [] OTHER -> << >>

LoadFrame(imports, functions) ==
    [imports |-> imports, i |-> 1, functions |-> functions, modules |-> EmptyMap]
LoadTop == ld.stack[Len(ld.stack)]
module_name == LoadTop.imports[LoadTop.i]
Loading == pc = "load" /\ LoadTop.i <= Len(LoadTop.imports)

\* the directory of module_file after the probes: base_dir, then stdlib, then the stdlib
\* next to the executable if current_exe() is known
module_file(name) ==
    IF "source" \in ld.files[name] THEN "source"
    ELSE IF "stdlib" \in ld.files[name] THEN "stdlib"
    ELSE IF ld.exe THEN "exe" ELSE "stdlib"
\* fs::read_to_string(&module_file) is Ok
Readable(name) == module_file(name) \in ld.files[name]
Path(dir, name) == [dir |-> dir, file |-> name \o ".per"]

\* faulty variant: the modules of the loaded module's ast are dropped
MergeNothing(ast_modules, module_modules) == ast_modules

\* for (mod_name, module) in module_ast.modules { ast.modules.insert(mod_name, module); }
MergeModules(ast_modules, module_modules) ==
    [k \in (DOMAIN ast_modules) \cup (DOMAIN module_modules) |->
        IF k \in DOMAIN module_modules THEN module_modules[k] ELSE ast_modules[k]]

\* process::exit(1) after e.display()
LoadFail(kind) ==
    /\ ld' = [ld EXCEPT !.loaded = @ \cup {module_name},
                        !.reads = IF kind = "ParseError" THEN Append(@, module_name) ELSE @,
                        !.error = Some([kind |-> kind, module |-> module_name,
                                        file |-> Path(module_file(module_name), module_name)])]
    /\ console' = Append(console, kind)
    /\ outcome' = "exit1"
    /\ pc' = "done"
    /\ UNCHANGED <<cpu, source_file, output_file, fs, target, program, visited, fn_index, asm, nvm, cg, artifact, vm>>

\* if loaded.contains(&module_name) { continue; }
LoadSkip ==
    /\ Loading /\ module_name \in ld.loaded
    /\ ld' = [ld EXCEPT !.stack[Len(ld.stack)].i = @ + 1, !.skips = @ + 1]
    /\ UNCHANGED <<cpu, source_file, output_file, fs, target, program, pc, visited, fn_index, asm, nvm, cg, artifact, console,
                   outcome, vm>>

\* the file is read and parsed, and load_modules is called on its ast
LoadModule ==
    /\ Loading /\ module_name \notin ld.loaded
    /\ Readable(module_name) /\ module_name \notin ld.broken
    /\ ld' = [ld EXCEPT !.loaded = @ \cup {module_name},
                        !.reads = Append(@, module_name),
                        !.stack = Append(@, LoadFrame(ld.imports[module_name],
                                                      ModuleFunctions(module_name)))]
    /\ UNCHANGED <<cpu, source_file, output_file, fs, target, program, pc, visited, fn_index, asm, nvm, cg, artifact, console,
                   outcome, vm>>

\* module_parser.parse()? is Err
LoadParseError ==
    /\ Loading /\ module_name \notin ld.loaded
    /\ Readable(module_name) /\ module_name \in ld.broken
    /\ LoadFail("ParseError")

\* read_to_string is Err: "could not find module"
LoadMissing ==
    /\ Loading /\ module_name \notin ld.loaded
    /\ ~Readable(module_name)
    /\ LoadFail("ModuleError")

\* a recursive call returns Ok(()): its modules and the module itself go into the caller's ast
LoadReturn ==
    /\ pc = "load" /\ LoadTop.i > Len(LoadTop.imports) /\ Len(ld.stack) > 1
    /\ LET caller == ld.stack[Len(ld.stack) - 1]
           name == caller.imports[caller.i]
       IN  ld' = [ld EXCEPT !.stack =
                    Append(SubSeq(@, 1, Len(@) - 2),
                           [caller EXCEPT
                               !.modules = MapInsert(MergeModules(@, LoadTop.modules), name,
                                                     Module(name, LoadTop.functions)),
                               !.i = @ + 1])]
    /\ UNCHANGED <<cpu, source_file, output_file, fs, target, program, pc, visited, fn_index, asm, nvm, cg, artifact, console,
                   outcome, vm>>

\* the call in main returns Ok(()): main derives the output path and the backend stage
\* starts
LoadDone ==
    /\ pc = "load" /\ LoadTop.i > Len(LoadTop.imports) /\ Len(ld.stack) = 1
    /\ program' = Program(LoadTop.functions, LoadTop.modules)
    /\ output_file' = OutputFile(target, source_file)
    /\ IF OutputFile(target, source_file) = None
       THEN pc' = "done" /\ outcome' = "panic"
       ELSE pc' = "start" /\ UNCHANGED outcome
    /\ UNCHANGED <<cpu, source_file, fs, target, visited, fn_index, asm, nvm, cg, artifact, console,
                   vm, ld>>

\* the source file of the compilations whose path is not varied
MainPer == <<"m", "a", "i", "n">> \o Ext(".per")

Init ==
    /\ target \in {"elf", "novaria", "pe"}
    /\ cpu = None
    /\ source_file = MainPer
    /\ output_file = OutputFile(target, source_file)
    /\ fs = {}
    /\ \E i \in 1..Len(Programs) : program = Programs[i]
    /\ pc = "start"
    /\ visited = << >>
    /\ fn_index = 1
    /\ asm = AsmNew
    /\ nvm = NVMCodeGenNew
    /\ cg = CodeGenNew
    /\ artifact = None
    /\ console = << >>
    /\ outcome = "running"
    /\ vm = None
    /\ ld = None

Next ==
    \/ ElfText \/ ElfModule \/ ElfFunction \/ ElfMain \/ ElfWrite \/ ElfGcc \/ ElfGccMissing
    \/ NvmMain \/ NvmFunction \/ NvmModule \/ NvmFinish \/ NvmWrite
    \/ PeCodeGen \/ PeWrite

Spec == Init /\ [][Next]_vars

\* the integers whose printing is checked on the reference NVM
VmInputs == {-1000000000, -1, 0, 1, 10, 1000000000}
\* import "stdio"; func main() { stdio.Println(n) }; the parser reads -k as Neg applied to k
PrintProgram(n) ==
    Program(<< Function("main", << >>,
                   << ExpressionStmt(ModuleCall("stdio", "Println",
                          << IF n < 0 THEN Unary("Neg", Number(-n)) ELSE Number(n) >>)) >>,
                   FALSE) >>,
            Modules(<< StdioModule >>))

InitVm ==
    /\ target = "novaria"
    /\ cpu = None
    /\ source_file = MainPer
    /\ output_file = OutputFile(target, source_file)
    /\ fs = {}
    /\ \E n \in VmInputs : program = PrintProgram(n)
    /\ pc = "start"
    /\ visited = << >>
    /\ fn_index = 1
    /\ asm = AsmNew
    /\ nvm = NVMCodeGenNew
    /\ cg = CodeGenNew
    /\ artifact = None
    /\ console = << >>
    /\ outcome = "running"
    /\ vm = None
    /\ ld = None

NextVm == NvmMain \/ NvmFunction \/ NvmModule \/ NvmFinish \/ NvmWrite \/ VmLoad \/ VmStep

\* the machine is a sequential program: loaded with an image it runs until it stops
SpecVm == InitVm /\ [][NextVm]_vars /\ WF_vars(VmLoad \/ VmStep)

\* the compilations load_modules is run on: root import lists, import lists of the module
\* files (with a self-import and a cycle), files missing from some or all directories
RootImports == { <<"math">>, <<"util">>, <<"util", "math">>, <<"stdio", "util", "stdio">>,
                 <<"math", "ghost">> }
MathImports == { << >>, <<"util">>, <<"math">> }
UtilImports == { <<"math">>, <<"stdio", "math">> }
AllInSource == [name \in ModuleNames |-> IF name = "ghost" THEN {} ELSE {"source"}]
FileLayouts ==
    {AllInSource}
    \cup {[AllInSource EXCEPT ![name] = dirs] :
             name \in {"math", "stdio"}, dirs \in {{"stdlib"}, {"exe"}, {}}}

InitLoad ==
    /\ target \in {"elf", "novaria", "pe"}
    /\ cpu = None
    /\ source_file = MainPer
    /\ output_file = None
    /\ fs = {}
    /\ program = Program(<< Function("main", << >>, << VarDecl("x", Some(Number(1))) >>,
                                     FALSE) >>, EmptyMap)
    /\ pc = "load"
    /\ visited = << >>
    /\ fn_index = 1
    /\ asm = AsmNew
    /\ nvm = NVMCodeGenNew
    /\ cg = CodeGenNew
    /\ artifact = None
    /\ console = << >>
    /\ outcome = "running"
    /\ vm = None
    /\ \E root \in RootImports, math \in MathImports, util \in UtilImports,
          files \in FileLayouts, exe \in BOOLEAN, broken \in {{}, {"util"}} :
          ld = [files |-> files, exe |-> exe, broken |-> broken,
                imports |-> [name \in ModuleNames |->
                                IF name = "math" THEN math
                                ELSE IF name = "util" THEN util ELSE << >>],
                loaded |-> {}, reads |-> << >>, skips |-> 0, error |-> None,
                stack |-> << LoadFrame(root, program.functions) >>]

LoadStep ==
    LoadSkip \/ LoadModule \/ LoadParseError \/ LoadMissing \/ LoadReturn \/ LoadDone

NextLoad ==
    \/ LoadSkip \/ LoadModule \/ LoadParseError \/ LoadMissing \/ LoadReturn \/ LoadDone
    \/ ElfText \/ ElfModule \/ ElfFunction \/ ElfMain \/ ElfWrite \/ ElfGcc \/ ElfGccMissing
    \/ NvmMain \/ NvmFunction \/ NvmModule \/ NvmFinish \/ NvmWrite
    \/ PeCodeGen \/ PeWrite

\* load_modules is sequential code: a step that can be taken is taken
SpecLoad == InitLoad /\ [][NextLoad]_vars /\ WF_vars(LoadStep)

\* the source paths the output path is derived from: stems (one with ".per" inside a
\* directory name, one that is itself "a.per") and final extensions
PathStems == {<< >>, <<"a">>, <<"p", "r", "o", "g">>, <<"d", "/", "m">>,
              <<"x">> \o Ext(".per") \o <<"/", "m">>, <<"a">> \o Ext(".per")}
PathExts == {Ext(".per"), Ext(".nl"), Ext(".go"), << >>}
SourceFiles == {stem \o ext : stem \in PathStems, ext \in PathExts} \ {<< >>}

InitPath ==
    /\ target \in {"elf", "novaria", "nvm-code", "pe"}
    /\ cpu = None
    /\ source_file \in SourceFiles
    /\ output_file = None
    /\ fs = {}
    /\ program = Program(<< Function("main", << >>, << >>, FALSE) >>, EmptyMap)
    /\ pc = "load"
    /\ visited = << >>
    /\ fn_index = 1
    /\ asm = AsmNew
    /\ nvm = NVMCodeGenNew
    /\ cg = CodeGenNew
    /\ artifact = None
    /\ console = << >>
    /\ outcome = "running"
    /\ vm = None
    /\ ld = [files |-> AllInSource, exe |-> FALSE, broken |-> {},
             imports |-> [name \in ModuleNames |-> << >>],
             loaded |-> {}, reads |-> << >>, skips |-> 0, error |-> None,
             stack |-> << LoadFrame(<< >>, program.functions) >>]

NextPath == LoadDone

SpecPath == InitPath /\ [][NextPath]_vars

\* the compilations of the PE backend alone: println of a string literal of each length
\* (the code grows with the literal), and each routine of the stdio runtime
TextLens == (0..ShortText) \cup {LongText - 16 * i : i \in 0..4}
\* the lengths of the literals printed with stdio.PrintStr and stdio.PrintlnStr
StrLens == {0, 1, 126, 127, 128, 255, 256}
PePrograms ==
    {Program(<< Function("main", << >>,
                         << ExpressionStmt(Call("println", <<StringLit([i \in 1..k |-> 65])>>)) >>,
                         FALSE) >>, EmptyMap) : k \in TextLens}
    \cup {Program(<< Function("main", << >>,
                              << ExpressionStmt(ModuleCall("stdio", name, args)) >>, FALSE) >>,
                   Modules(<< StdioModule >>)) :
             name \in {"ReadInt", "ReadChar", "Flush"}, args \in {<< >>}}
    \cup {Program(<< Function("main", << >>,
                              << ExpressionStmt(ModuleCall("stdio", name, args)) >>, FALSE) >>,
                   Modules(<< StdioModule >>)) :
             name \in {"Println", "Print", "PrintChar"}, args \in {<<Number(65)>>}}
    \cup {Program(<< Function("main", << >>,
                              << ExpressionStmt(ModuleCall("stdio", name,
                                                           <<StringLit([i \in 1..k |-> 65])>>)) >>,
                              FALSE) >>,
                   Modules(<< StdioModule >>)) :
             name \in {"PrintStr", "PrintlnStr"}, k \in StrLens}

InitPe ==
    /\ target = "pe"
    /\ cpu = None
    /\ source_file = MainPer
    /\ output_file = OutputFile(target, source_file)
    /\ fs = {}
    /\ program \in PePrograms
    /\ pc = "start"
    /\ visited = << >>
    /\ fn_index = 1
    /\ asm = AsmNew
    /\ nvm = NVMCodeGenNew
    /\ cg = CodeGenNew
    /\ artifact = None
    /\ console = << >>
    /\ outcome = "running"
    /\ vm = None
    /\ ld = None

NextPe == PeCodeGen \/ PeWrite

SpecPe == InitPe /\ [][NextPe]_vars

(***************************************************************************)
(* Properties.                                                             *)
(***************************************************************************)
\* the calls <<module, function>> (module "" for a direct call) inside an AST
RECURSIVE ExprCalls(_), StmtCalls(_), BodyCalls(_)
ExprCalls(e) ==
    CASE e.tag = "Binary" -> ExprCalls(e.left) \cup ExprCalls(e.right)
      [] e.tag = "Unary" -> ExprCalls(e.operand)
      [] e.tag = "Call" ->
            {<<"", e.function>>} \cup UNION {ExprCalls(e.args[i]) : i \in 1..Len(e.args)}
      [] e.tag = "ModuleCall" ->
            {<<e.module, e.function>>} \cup UNION {ExprCalls(e.args[i]) : i \in 1..Len(e.args)}
      [] OTHER -> {}
StmtCalls(stmt) ==
    CASE stmt.tag \in {"VarDecl", "Return"} ->
            IF stmt.value # None THEN ExprCalls(stmt.value[1]) ELSE {}
      [] stmt.tag = "Assignment" -> ExprCalls(stmt.value)
      [] stmt.tag = "Expression" -> ExprCalls(stmt.expr)
      [] stmt.tag = "If" ->
            ExprCalls(stmt.condition) \cup BodyCalls(stmt.then_body)
            \cup (IF stmt.else_body # None THEN BodyCalls(stmt.else_body[1]) ELSE {})
      [] stmt.tag = "For" ->
            (IF stmt.condition # None THEN ExprCalls(stmt.condition[1]) ELSE {})
            \cup BodyCalls(stmt.body)
      [] OTHER -> {}
BodyCalls(stmts) == UNION {StmtCalls(stmts[i]) : i \in 1..Len(stmts)}

\* the exported functions <<module, function>> of the imported modules other than stdio
ExportedFunctions(prog) ==
    UNION {{<<m, prog.modules[m].functions[i].name>> :
               i \in {j \in 1..Len(prog.modules[m].functions) :
                          prog.modules[m].functions[j].is_exported}} :
           m \in DOMAIN prog.modules \ {"stdio"}}

\* the names of the user functions other than main
UserFunctions(prog) ==
    {prog.functions[i].name : i \in 1..Len(prog.functions)} \ {"main"}

\* the calls inside the bodies a native backend emits as functions
EmittedCalls(prog) ==
    UNION {BodyCalls(prog.functions[i].body) : i \in 1..Len(prog.functions)}
    \cup UNION {UNION {BodyCalls(prog.modules[m].functions[i].body) :
                          i \in {j \in 1..Len(prog.modules[m].functions) :
                                     prog.modules[m].functions[j].is_exported}} :
                m \in DOMAIN prog.modules \ {"stdio"}}

AsmGlobals(output) == {output[i][2] : i \in {j \in 1..Len(output) : output[j][1] = ".globl"}}
StdioOrder == <<"stdio_Println", "stdio_Print", "stdio_PrintStr", "stdio_PrintlnStr",
                "stdio_PrintChar", "stdio_ReadInt", "stdio_ReadChar", "stdio_ReadLine",
                "stdio_Flush">>
StdioSymbols == Range(StdioOrder)
ElfEmitted == target = "elf" /\ pc \in {"gcc", "done"}

\* C1: in the assembly the ELF backend writes, every exported function F of a module M
\* other than stdio is defined as the global symbol M_F, every user function F other than
\* main as the global symbol F, no other function symbol is defined, and a call M.F(...)
\* is a call of M_F.
C1_AbiSymbols ==
    ElfEmitted =>
        LET expected == {e[1] \o "_" \o e[2] : e \in ExportedFunctions(program)}
                        \cup UserFunctions(program)
        IN  /\ expected \subseteq AsmGlobals(asm.output) \cap AsmDefined(asm.output)
            /\ AsmGlobals(asm.output) \ (StdioSymbols \cup {"main"}) = expected
            /\ AsmCalled(asm.output) \ LibcSymbols =
                   {IF c[1] = "" THEN c[2] ELSE c[1] \o "_" \o c[2] :
                        c \in EmittedCalls(program)}

C1_Witness ==
    /\ ElfEmitted
    /\ outcome = "success"
    /\ <<"math", "Add">> \in ExportedFunctions(program)
    /\ <<"math", "Add">> \in EmittedCalls(program)
    /\ "f" \in UserFunctions(program)
    /\ "math_Add" \in AsmCalled(asm.output)

\* a frame binds its first six parameters at -8, -16, ... in order
FrameAtSlots(frame) ==
    \A i \in 1..Len(frame.params) :
        i <= 6 => /\ frame.params[i] \in DOMAIN frame.variables
                  /\ frame.variables[frame.params[i]] = -8 * i

\* C2: every native function of at most six parameters starts its body with parameter
\* pi bound to frame offset -8*i, whatever the generator did before (ELF function
\* emitters and the PE call inliner).
C2_ParamSlots ==
    /\ \A i \in 1..Len(asm.frames) :
          Len(asm.frames[i].params) <= 6 => FrameAtSlots(asm.frames[i])
    /\ \A i \in 1..Len(cg.frames) :
          Len(cg.frames[i].params) <= 6 => FrameAtSlots(cg.frames[i])

\* the target of the jump whose rel32 operand is at 0-based position pos
JumpTarget(code, pos) == pos + 4 + from_le_bytes(code, pos)
PeEmitted == target = "pe" /\ pc \in {"write", "done"} /\ ~cg.panicked

\* C3: in the PE code, the conditional jump of an `if` without `else` targets the byte
\* after the then-body's trailing jmp, and the conditional jump of a `for` with a
\* condition targets the byte after the loop's trailing backward jmp (which returns to
\* the loop start), for empty and nested bodies alike.
C3_BranchSymmetry ==
    PeEmitted =>
        \A i \in 1..Len(cg.jumps) :
            LET j == cg.jumps[i]
            IN  /\ j.kind = "if" =>
                      /\ cg.code[j.first - 1] = \h0F /\ cg.code[j.first] = \h84
                      /\ cg.code[j.second] = \hE9
                      /\ JumpTarget(cg.code, j.first) = j.second + 4
                      /\ j.end = j.second + 4
                /\ j.kind = "for" =>
                      /\ cg.code[j.second - 1] = \h0F /\ cg.code[j.second] = \h84
                      /\ JumpTarget(cg.code, j.second) = j.end
                      /\ cg.code[j.end - 4] = \hE9
                      /\ JumpTarget(cg.code, j.end - 4) = j.first

C3_Witness ==
    /\ PeEmitted /\ pc = "done" /\ outcome = "success"
    /\ \E i, k \in 1..Len(cg.jumps) :
          /\ cg.jumps[i].kind = "if" /\ cg.jumps[k].kind = "for"
          /\ cg.jumps[k].first < cg.jumps[i].first /\ cg.jumps[i].end < cg.jumps[k].end
          /\ cg.jumps[i].second = cg.jumps[i].first + 5

\* where the instructions stop and the string literals start
NvmCodeEnd(n) ==
    IF n.string_literals = << >> THEN Len(n.bytecode)
    ELSE n.labels[n.string_literals[1][1]]

\* the offsets of the instructions of an image, decoded from offset pos on
RECURSIVE NvmInstrStarts(_, _, _, _)
NvmInstrStarts(image, pos, end, acc) ==
    IF pos >= end \/ pos \in acc THEN acc
    ELSE NvmInstrStarts(image, pos + NvmInstrLen(image[pos + 1]), end, acc \cup {pos})

\* u32::from_be_bytes of the four bytes at 0-based position pos (values below 2^31)
from_be_bytes(bytes, pos) ==
    16777216 * bytes[pos + 1] + 65536 * bytes[pos + 2] + 256 * bytes[pos + 3] + bytes[pos + 4]

NvmEmitted == target = "novaria" /\ pc \in {"write", "done"} /\ ~nvm.panicked

\* C4: in every NVM image the compiler writes, the operand of each JMP32, JZ32, JNZ32
\* and CALL32 is smaller than the image length and is the offset of the first byte of
\* an instruction.
C4_JumpOperands ==
    NvmEmitted =>
        LET starts == NvmInstrStarts(nvm.bytecode, 4, NvmCodeEnd(nvm), {})
        IN  \A p \in starts :
                nvm.bytecode[p + 1] \in {JMP32, JZ32, JNZ32, CALL32} =>
                    /\ from_be_bytes(nvm.bytecode, p + 1) < Len(nvm.bytecode)
                    /\ from_be_bytes(nvm.bytecode, p + 1) \in starts

PeWritten == target = "pe" /\ pc = "done" /\ artifact # None /\ artifact[1].kind = "exe"
IsNonZero(bytes, pos, n) == \E i \in 1..n : bytes[pos + i] # 0

\* file offsets of the PE headers; the import table is found the way a loader finds it
PeOptionalHeader == \h80 + 4 + 20
PeIdataHeader == PeOptionalHeader + 240 + 40
PeFileOffset(file, rva) ==
    from_le_bytes(file, PeIdataHeader + 20) + rva - from_le_bytes(file, PeIdataHeader + 12)
PeImportTable(file) == PeFileOffset(file, from_le_bytes(file, PeOptionalHeader + 120))
PeIat(file) == PeFileOffset(file, from_le_bytes(file, PeImportTable(file) + 16))

GlobalsInOrder(output) ==
    LET globals == SelectSeq(output, LAMBDA line : line[1] = ".globl")
    IN  [i \in 1..Len(globals) |-> globals[i][2]]

\* the function labels of an NVM image, in the order of the image
NvmFunctionsInOrder(n, prog) ==
    LET names == {"func_" \o prog.functions[i].name : i \in 1..Len(prog.functions)}
                 \cup UNION {{"func_" \o m \o "_" \o prog.modules[m].functions[i].name :
                                 i \in 1..Len(prog.modules[m].functions)} :
                             m \in DOMAIN prog.modules}
                 \cup {"__print_int"}
    IN  SelectSeq(n.defined, LAMBDA label : label \in names)

\* the exported functions of the modules (stdio skipped) in the order the modules were
\* iterated, each named prefix ++ module ++ "_" ++ function
RECURSIVE ExportedInOrder(_, _, _)
ExportedInOrder(prog, order, prefix) ==
    IF order = << >> THEN << >>
    ELSE (IF Head(order) = "stdio" THEN << >>
          ELSE LET exported == SelectSeq(prog.modules[Head(order)].functions,
                                         LAMBDA func : func.is_exported)
               IN  [i \in 1..Len(exported) |->
                       prefix \o Head(order) \o "_" \o exported[i].name])
         \o ExportedInOrder(prog, Tail(order), prefix)

\* the user functions other than main, in source order
UsersInOrder(prog, prefix) ==
    LET users == SelectSeq(prog.functions, LAMBDA func : func.name # "main")
    IN  [i \in 1..Len(users) |-> prefix \o users[i].name]

HasStdio(prog) == "stdio" \in DOMAIN prog.modules

\* C7 as stated: on every backend the functions come out as exported module functions,
\* then user functions other than main, then the stdio runtime, and main last.
C7_MainLast ==
    /\ ElfEmitted =>
          GlobalsInOrder(asm.output) =
              ExportedInOrder(program, visited, "") \o UsersInOrder(program, "")
              \o (IF HasStdio(program) THEN StdioOrder ELSE << >>) \o <<"main">>
    /\ NvmEmitted =>
          NvmFunctionsInOrder(nvm, program) =
              ExportedInOrder(program, visited, "func_") \o UsersInOrder(program, "func_")
              \o (IF HasStdio(program) THEN <<"__print_int">> ELSE << >>) \o <<"func_main">>

\* C7: the ELF backend emits exported module functions (declaration order within a
\* module, stdio skipped), then user functions other than main in source order, then the
\* stdio runtime if stdio was imported, and main last; the NVM backend emits main first,
\* then the user functions, then the exported module functions, then __print_int if
\* stdio was imported; the PE backend emits main alone, from offset 0.
C7_EmissionOrder ==
    /\ ElfEmitted =>
          GlobalsInOrder(asm.output) =
              ExportedInOrder(program, visited, "") \o UsersInOrder(program, "")
              \o (IF HasStdio(program) THEN StdioOrder ELSE << >>) \o <<"main">>
    /\ NvmEmitted =>
          /\ NvmFunctionsInOrder(nvm, program) =
                <<"func_main">> \o UsersInOrder(program, "func_")
                \o ExportedInOrder(program, visited, "func_")
                \o (IF HasStdio(program) THEN <<"__print_int">> ELSE << >>)
          /\ nvm.labels["func_main"] = 4
    /\ PeEmitted =>
          SubSeq(cg.code, 1, 8) = <<\h55, \h48, \h89, \hE5, \h48, \h83, \hEC, \h40>>

C7_Witness ==
    /\ pc = "done" /\ outcome = "success" /\ target \in {"elf", "novaria"}
    /\ HasStdio(program) /\ Len(visited) = 3
    /\ Len(UsersInOrder(program, "")) = 2
    /\ program.functions[1].name = "main"

\* main calls M.F where the imported module M defines F without exporting it
CallsNonExported(prog) ==
    \E c \in BodyCalls(FindFunction(prog.functions, "main")[1].body) :
        /\ c[1] \in DOMAIN prog.modules
        /\ FindFunction(prog.modules[c[1]].functions, c[2]) # None
        /\ ~FindFunction(prog.modules[c[1]].functions, c[2])[1].is_exported

\* C8: on every backend a call M.F(...) of a function that module M defines but does not
\* export aborts the compilation, and no artifact is reported as produced.
C8_NonExportedFatal ==
    (pc = "done" /\ CallsNonExported(program)) =>
        /\ outcome \in {"exit1", "panic"}
        /\ "Compilation successful" \notin Range(console)

\* the decimal digits of a positive number, as character codes
RECURSIVE DecimalDigits(_)
DecimalDigits(n) ==
    IF n < 10 THEN <<48 + n>> ELSE Append(DecimalDigits(n \div 10), 48 + (n % 10))
DecimalString(n) ==
    IF n = 0 THEN <<48>> ELSE IF n < 0 THEN <<45>> \o DecimalDigits(-n) ELSE DecimalDigits(n)

\* the n of PrintProgram(n)
PrintedNumber ==
    LET arg == program.functions[1].body[1].expr.args[1]
    IN  IF arg.tag = "Unary" THEN -arg.operand.n ELSE arg.n
\* the offset CALL32 __print_int returns to: the byte after its operand
PrintIntReturn ==
    LET calls == SelectSeq(nvm.label_patches, LAMBDA patch : patch[2] = "__print_int")
    IN  calls[1][1] + 4
\* the machine is back in main, just after the call of __print_int
VmReturned == vm # None /\ vm[1].status = "running" /\ vm[1].ip = PrintIntReturn

\* the machine has just been loaded and is about to run main
VmStarted == vm # None /\ vm[1] = VmNew(vm[1].image)

\* C5: run on the reference NVM with argument n from {-10^9, -1, 0, 1, 10, 10^9}, the
\* emitted __print_int returns to its caller (both of its loops terminate), and when it
\* does the output is exactly the decimal string of n and the stack is as it was before
\* the argument was pushed.
C5_PrintInt ==
    /\ [](VmReturned => vm[1].out = DecimalString(PrintedNumber) /\ vm[1].stack = << >>)
    /\ [](vm # None => vm[1].status # "trap")
    /\ VmStarted ~> VmReturned

C5_Witness ==
    /\ VmReturned
    /\ PrintedNumber = -1000000000
    /\ vm[1].out = <<45, 49, 48, 48, 48, 48, 48, 48, 48, 48, 48>>

\* the modules reachable through imports from the modules in `names`
RECURSIVE ImportClosure(_)
ImportClosure(names) ==
    LET more == names \cup UNION {Range(ld.imports[name]) : name \in names}
    IN  IF more = names THEN names ELSE ImportClosure(more)
RootReachable == ImportClosure(Range(ld.stack[1].imports))
LoadSucceeded == ld # None /\ pc # "load" /\ ld.error = None

\* C9: load_modules terminates for every import graph, self-imports and cycles
\* included; no module name is read and parsed twice; and when it succeeds every module
\* reachable through imports from the root is a key of the root program's module table.
C9_LoadModules ==
    /\ [](ld # None =>
            \A i, j \in 1..Len(ld.reads) : ld.reads[i] = ld.reads[j] => i = j)
    /\ [](LoadSucceeded => RootReachable \subseteq DOMAIN program.modules)
    /\ <>(pc # "load")

C9_Witness ==
    /\ LoadSucceeded /\ pc = "start"
    /\ "util" \in Range(ld.imports["math"]) /\ "math" \in Range(ld.imports["util"])
    /\ ld.skips >= 2
    /\ ld.stack[1].imports = <<"util", "math">>
    /\ DOMAIN program.modules = {"math", "util", "stdio"}

\* C10: when an imported module exists at none of the probed locations the compilation
\* stops with a module error, exit code 1 and no backend run, and the file the error
\* reports is the first attempted path <source-dir>/<name>.per.
C10_FirstPath ==
    (ld # None /\ ld.error # None /\ ld.error[1].kind = "ModuleError") =>
        /\ pc = "done" /\ outcome = "exit1" /\ artifact = None
        /\ asm = AsmNew /\ nvm = NVMCodeGenNew /\ cg = CodeGenNew
        /\ ld.error[1].file = Path("source", ld.error[1].module)

\* the extension the target gives its output
TargetExt(tgt) ==
    CASE tgt = "elf" -> << >>
      [] tgt = "pe" -> Ext(".exe")
      [] tgt = "nvm-code" -> Ext(".asm")
      [] OTHER -> Ext(".bin")

\* the final extension of a source path that main recognises, << >> if none
SourceExt(src) ==
    IF ends_with(src, Ext(".per")) THEN Ext(".per")
    ELSE IF ends_with(src, Ext(".nl")) THEN Ext(".nl") ELSE << >>

PathDerived == pc # "load"

\* C11: for a source path ending in .per or .nl, the output path is the source path with
\* exactly that final extension removed and the extension of the target appended; no other
\* character is changed.
C11_OutputPath ==
    (PathDerived /\ SourceExt(source_file) # << >>) =>
        /\ output_file # None
        /\ output_file[1] = SubSeq(source_file, 1,
                                   Len(source_file) - Len(SourceExt(source_file)))
                            \o TargetExt(target)

\* <output>.s
IntermediateFile == output_file[1] \o Ext(".s")
AssemblerDone == target = "elf" /\ pc = "done" /\ artifact # None

\* C12: on the ELF path the intermediate <output>.s exists when the assembler is run; after
\* a successful assembler run it is removed; after a failed run, or when the assembler
\* cannot be started, it is kept, its path has been printed, the process exits non-zero and
\* no success is reported.
C12_IntermediateFile ==
    /\ (target = "elf" /\ pc = "gcc") => IntermediateFile \in fs
    /\ (AssemblerDone /\ outcome = "success") => IntermediateFile \notin fs
    /\ (AssemblerDone /\ outcome # "success") =>
          /\ outcome = "exit1"
          /\ IntermediateFile \in fs
          /\ ("Assembly file kept at: " \o PathString(IntermediateFile)) \in Range(console)
          /\ "Compilation successful" \notin Range(console)

\* the assembler ran and failed, and the written file is still there
C12_Witness ==
    /\ AssemblerDone /\ outcome = "exit1"
    /\ "GCC failed with exit code" \in Range(console)
    /\ IntermediateFile \in fs

\* the 0-based offsets of the `call [rip+disp32]` instructions the code generator emitted
\* with one of its import sentinels (GetStdHandle, WriteFile, ReadFile, FlushFileBuffers,
\* ExitProcess) as displacement
PeSentinels == {\h20000000, \h20080000, \h20100000, \h20180000, \h10000000}
PeCallSites(code) ==
    {i \in 0..(Len(code) - 6) :
        code[i + 1] = \hFF /\ code[i + 2] = \h15 /\ from_le_bytes(code, i + 2) \in PeSentinels}
\* the RVA the call at offset i of the written code section dereferences
PeCallTarget(file, i) == \h1000 + i + 6 + from_le_bytes(file, \h200 + i + 2)
\* the RVA of the import address table as the import descriptor records it
PeIatRva(file) == from_le_bytes(file, PeImportTable(file) + 16)

\* C13: in the written file every indirect call the code generator emitted through an
\* import sentinel dereferences a slot of the import address table: sentinel 0x20000000
\* the first (GetStdHandle), 0x20080000 the second (WriteFile), 0x10000000 the third
\* (ExitProcess); no sentinel is left as a displacement.
C13_ImportCalls ==
    PeWritten =>
        LET file == artifact[1].content
        IN  \A i \in PeCallSites(cg.code) :
               /\ from_le_bytes(file, \h200 + i + 2) \notin PeSentinels
               /\ PeCallTarget(file, i) \in {PeIatRva(file) + 8 * k : k \in 0..2}
               /\ from_le_bytes(cg.code, i + 2) = \h20000000
                     => PeCallTarget(file, i) = PeIatRva(file)
               /\ from_le_bytes(cg.code, i + 2) = \h20080000
                     => PeCallTarget(file, i) = PeIatRva(file) + 8
               /\ from_le_bytes(cg.code, i + 2) = \h10000000
                     => PeCallTarget(file, i) = PeIatRva(file) + 16

\* the RVAs stored inside the import data: the three of the descriptor and the hint/name
\* RVAs of the lookup table and of the address table
PeImportRvas(file) ==
    LET desc == from_le_bytes(file, PeIdataHeader + 20)
    IN  {from_le_bytes(file, desc), from_le_bytes(file, desc + 12),
         from_le_bytes(file, desc + 16)}
        \cup {from_le_bytes(file, desc + 40 + 14 + 8 * k) : k \in 0..2}
        \cup {from_le_bytes(file, desc + 40 + 14 + 32 + 8 * k) : k \in 0..2}

\* C14: whatever the length of the code, the RVAs stored inside the import data lie inside
\* the .idata section as its section header places it, at 0x1000 + align(code_size,
\* 0x1000), and the IAT RVA of the import descriptor is the one the patched calls of
\* GetStdHandle dereference.
C14_ImportRvas ==
    PeWritten =>
        LET file == artifact[1].content
            idata_rva == from_le_bytes(file, PeIdataHeader + 12)
            idata_size == from_le_bytes(file, PeIdataHeader + 8)
            desc == from_le_bytes(file, PeIdataHeader + 20)
        IN  /\ idata_rva = \h1000 + align(align(Len(cg.code), \h200), \h1000)
            /\ \A rva \in PeImportRvas(file) : idata_rva <= rva /\ rva < idata_rva + idata_size
            /\ \A i \in PeCallSites(cg.code) :
                   from_le_bytes(cg.code, i + 2) = \h20000000
                       => PeCallTarget(file, i) = from_le_bytes(file, desc + 16)

\* the construct with history index i lies inside the one with index k
PeInside(i, k) == cg.jumps[k].first < cg.jumps[i].first /\ cg.jumps[i].end <= cg.jumps[k].end

\* C20: in the PE code every rel32 of an if with an else and of a for equals target minus
\* (site + 4): the conditional branch of the if targets the first byte of the else body,
\* the jump ending the then-body targets the first byte after the else body, the jump
\* ending a loop body targets the loop head recorded before the condition code, at every
\* nesting depth and after all inner constructs were patched.
C20_Displacements ==
    PeEmitted =>
        \A i \in 1..Len(cg.jumps) :
            LET j == cg.jumps[i]
            IN  /\ j.kind = "ifelse" =>
                      /\ cg.code[j.first - 1] = \h0F /\ cg.code[j.first] = \h84
                      /\ from_le_bytes(cg.code, j.first) = (j.second + 4) - (j.first + 4)
                      /\ cg.code[j.second] = \hE9
                      /\ from_le_bytes(cg.code, j.second) = j.end - (j.second + 4)
                /\ j.kind = "for" =>
                      /\ cg.code[j.end - 4] = \hE9
                      /\ from_le_bytes(cg.code, j.end - 4) = j.first - j.end
                      /\ j.first < j.second
                /\ j.kind = "loop" =>
                      /\ cg.code[j.second] = \hE9
                      /\ from_le_bytes(cg.code, j.second) = j.first - (j.second + 4)

\* an if with an else was emitted inside the body of a for with a condition
C20_Witness ==
    /\ PeEmitted /\ pc = "done" /\ outcome = "success"
    /\ \E i, k \in 1..Len(cg.jumps) :
          /\ cg.jumps[i].kind = "ifelse" /\ cg.jumps[k].kind = "for" /\ PeInside(i, k)
          /\ cg.jumps[i].end - cg.jumps[i].second > 4

(***************************************************************************)
(* A reference x86-64 machine for the code of the two native backends.     *)
(* A 64-bit word is kept as its two 32-bit halves [hi, lo], each a signed  *)
(* 32-bit integer with the bit pattern of the half; Qword(v) is the word   *)
(* of a value of the i32 range.  Arithmetic is done on 16-bit pieces.      *)
(***************************************************************************)
Qword(v) == [hi |-> IF v < 0 THEN -1 ELSE 0, lo |-> v]
\* the word is the sign extension of its low half
IsSmall(w) == w.hi = (IF w.lo < 0 THEN -1 ELSE 0)
\* the 32-bit value zero-extended, as a write to a 32-bit register leaves it
ZeroExtend(v) == [hi |-> 0, lo |-> v]

UHigh16(a) == (a \div 65536) % 65536
\* a + b + c on 32-bit patterns: the wrapped sum and the carry out
Add32c(a, b, c) ==
    Pack32(UHigh16(a) + UHigh16(b) + (Low16(a) + Low16(b) + c) \div 65536,
           Low16(a) + Low16(b) + c)
Carry32(a, b, c) ==
    (UHigh16(a) + UHigh16(b) + (Low16(a) + Low16(b) + c) \div 65536) \div 65536
\* unsigned comparison of two 32-bit patterns
ULess32(x, y) == IF (x < 0) = (y < 0) THEN x < y ELSE y < 0

Add64c(a, b, c) ==
    [hi |-> Add32c(a.hi, b.hi, Carry32(a.lo, b.lo, c)), lo |-> Add32c(a.lo, b.lo, c)]
Carry64(a, b, c) == Carry32(a.hi, b.hi, Carry32(a.lo, b.lo, c))
Not64(a) == [hi |-> -1 - a.hi, lo |-> -1 - a.lo]
Add64(a, b) == Add64c(a, b, 0)
Sub64(a, b) == Add64c(a, Not64(b), 1)
Neg64(a) == Sub64(Qword(0), a)
\* signed comparison
Less64(a, b) == a.hi < b.hi \/ (a.hi = b.hi /\ ULess32(a.lo, b.lo))

RECURSIVE XorBits(_, _, _)
XorBits(x, y, n) ==
    IF n = 0 THEN 0 ELSE ((x + y) % 2) + 2 * XorBits(x \div 2, y \div 2, n - 1)
Xor32(x, y) == Pack32(XorBits(UHigh16(x), UHigh16(y), 16), XorBits(Low16(x), Low16(y), 16))
Xor64(a, b) == [hi |-> Xor32(a.hi, b.hi), lo |-> Xor32(a.lo, b.lo)]

\* the low 64 bits of a product; None outside the operands the model multiplies
Mul64(a, b) ==
    IF IsSmall(a) /\ IsSmall(b) /\ a.lo > -32768 /\ a.lo < 32768
       /\ b.lo > -32768 /\ b.lo < 32768
    THEN Some(Qword(a.lo * b.lo)) ELSE None

\* the four 16-bit limbs of a word, most significant first, and back
Limbs64(w) == <<UHigh16(w.hi), Low16(w.hi), UHigh16(w.lo), Low16(w.lo)>>
FromLimbs(l) == [hi |-> Pack32(l[1], l[2]), lo |-> Pack32(l[3], l[4])]

\* long division of an unsigned number given by its limbs by d, 0 < d < 2^15
RECURSIVE DivLimbs(_, _, _, _)
DivLimbs(limbs, d, r, q) ==
    IF limbs = << >> THEN [q |-> q, r |-> r]
    ELSE DivLimbs(Tail(limbs), d, (r * 65536 + Head(limbs)) % d,
                  Append(q, (r * 65536 + Head(limbs)) \div d))

\* the divisors the model divides by: 0 < |d| < 2^15
IsDivisor(w) == IsSmall(w) /\ w.lo # 0 /\ w.lo > -32768 /\ w.lo < 32768

\* DIV r/m64: rdx:rax unsigned by an unsigned divisor; [ok, q, r], ok = FALSE for #DE
Div128(high, low, d) ==
    LET res == DivLimbs(Limbs64(high) \o Limbs64(low), d.lo, 0, << >>)
    IN  [ok |-> d.lo > 0 /\ SubSeq(res.q, 1, 4) = <<0, 0, 0, 0>>,
         q |-> FromLimbs(SubSeq(res.q, 5, 8)), r |-> Qword(res.r)]

\* IDIV r/m64: rdx:rax signed by a signed divisor, quotient truncated toward zero, the
\* remainder with the sign of the dividend; ok = FALSE for #DE (quotient outside i64)
IDiv128(high, low, d) ==
    LET negative == high.hi < 0
        mag_low == IF negative THEN Add64c(Not64(low), Qword(0), 1) ELSE low
        mag_high == IF negative
                    THEN Add64c(Not64(high), Qword(0), Carry64(Not64(low), Qword(0), 1))
                    ELSE high
        dm == IF d.lo < 0 THEN -d.lo ELSE d.lo
        res == DivLimbs(Limbs64(mag_high) \o Limbs64(mag_low), dm, 0, << >>)
        qm == FromLimbs(SubSeq(res.q, 5, 8))
        qneg == negative # (d.lo < 0)
        fits == /\ SubSeq(res.q, 1, 4) = <<0, 0, 0, 0>>
                /\ IF qneg THEN qm.hi >= 0 \/ qm = [hi |-> -2147483647 - 1, lo |-> 0]
                   ELSE qm.hi >= 0
    IN  [ok |-> fits,
         q |-> IF qneg THEN Neg64(qm) ELSE qm,
         r |-> Qword(IF negative THEN -res.r ELSE res.r)]

\* the eight bytes of a word, least significant first, and the word of eight bytes
QwordBytes(w) == to_le_bytes(w.lo) \o to_le_bytes(w.hi)
BytesQword(b) == [hi |-> from_le_bytes(b, 4), lo |-> from_le_bytes(b, 0)]
\* the low byte of a word, and the word with its low byte replaced
Low8(w) == w.lo % 256
SetLow8(w, b) == [w EXCEPT !.lo = (w.lo - (w.lo % 256)) + b]

(***************************************************************************)
(* The machine: sixteen registers, a byte-addressed memory that holds only *)
(* the bytes written so far (a byte never written reads as `junk`, which   *)
(* the step chooses), the operands of the last cmp or test, and the calls  *)
(* of external functions made so far.  `image` is what is executed: the    *)
(* bytes of the written PE file, or the lines of the assembly text; `ip`   *)
(* is the 0-based offset into the code section, or the index of the line.  *)
(* Addresses of the PE image are RVAs: the code section starts at 0x1000.  *)
(***************************************************************************)
RegNames == <<"rax", "rcx", "rdx", "rbx", "rsp", "rbp", "rsi", "rdi",
              "r8", "r9", "r10", "r11", "r12", "r13", "r14", "r15">>
\* the address the stack pointer holds when the program is entered
StackTop == 65536
\* the bytes an unwritten memory cell or a clobbered register may hold
JunkBytes == {0, 63}

NoOperand == [kind |-> "none", reg |-> "", disp |-> 0, value |-> Qword(0)]
RegOperand(name) == [NoOperand EXCEPT !.kind = "reg", !.reg = name]
MemOperand(base, disp) == [NoOperand EXCEPT !.kind = "mem", !.reg = base, !.disp = disp]
ImmOperand(w) == [NoOperand EXCEPT !.kind = "imm", !.value = w]

\* an instruction: mnemonic, operand size in bytes, operands, condition code, jump or
\* call target, the symbol of an external call, and the position of the next instruction
Instruction(mn, size, dst, src, next) ==
    [mn |-> mn, size |-> size, dst |-> dst, src |-> src, cc |-> "", target |-> 0,
     sym |-> "", next |-> next]

CpuNew(arch, image, entry) ==
    [arch |-> arch, image |-> image, ip |-> entry,
     regs |-> [r \in Range(RegNames) |-> IF r = "rsp" THEN Qword(StackTop) ELSE Qword(0)],
     mem |-> [a \in StackTop..(StackTop + 7) |-> 0],
     flags |-> None, out |-> << >>, status |-> "running", exit_code |-> Qword(0)]

CpuStop(m, status) == [m EXCEPT !.status = status]

\* the byte at an address: written memory, else the loaded code section of the PE image,
\* else whatever the cell happens to hold
ReadByte(m, a, junk) ==
    IF a \in DOMAIN m.mem THEN m.mem[a]
    ELSE IF m.arch = "pe" /\ a >= \h1000 /\ a - \h1000 + \h200 < Len(m.image)
         THEN m.image[a - \h1000 + \h200 + 1]
         ELSE junk
ReadBytes(m, a, n, junk) == [i \in 1..n |-> ReadByte(m, a + i - 1, junk)]
WriteBytes(m, a, bytes) ==
    [m EXCEPT !.mem = [x \in (DOMAIN m.mem) \cup (a..(a + Len(bytes) - 1)) |->
                          IF x >= a /\ x < a + Len(bytes) THEN bytes[x - a + 1]
                          ELSE m.mem[x]]]
\* the cells of [a, a + n) lose their contents
ForgetBytes(m, a, n) ==
    [m EXCEPT !.mem = [x \in (DOMAIN m.mem) \ (a..(a + n - 1)) |-> m.mem[x]]]

\* the effective address of a memory operand; rip is the address of the next instruction
EffectiveAddress(m, opnd, next) ==
    IF opnd.reg = "rip" THEN \h1000 + next + opnd.disp
    ELSE m.regs[opnd.reg].lo + opnd.disp
Addressable(m, opnd) == opnd.reg = "rip" \/ IsSmall(m.regs[opnd.reg])

\* the value of an operand of 1, 4 or 8 bytes, zero-extended to a word
ReadOperand(m, opnd, size, next, junk) ==
    CASE opnd.kind = "reg" ->
            IF size = 8 THEN m.regs[opnd.reg]
            ELSE IF size = 4 THEN ZeroExtend(m.regs[opnd.reg].lo)
            ELSE Qword(Low8(m.regs[opnd.reg]))
      [] opnd.kind = "mem" ->
            LET a == EffectiveAddress(m, opnd, next)
            IN  IF size = 8 THEN BytesQword(ReadBytes(m, a, 8, junk))
                ELSE IF size = 4 THEN ZeroExtend(from_le_bytes(ReadBytes(m, a, 4, junk), 0))
                ELSE Qword(ReadByte(m, a, junk))
      [] OTHER -> opnd.value

WriteOperand(m, opnd, size, next, w) ==
    IF opnd.kind = "reg"
    THEN [m EXCEPT !.regs[opnd.reg] =
             IF size = 8 THEN w
             ELSE IF size = 4 THEN ZeroExtend(w.lo)
             ELSE SetLow8(@, Low8(w))]
    ELSE WriteBytes(m, EffectiveAddress(m, opnd, next),
                    IF size = 8 THEN QwordBytes(w)
                    ELSE IF size = 4 THEN to_le_bytes(w.lo) ELSE <<Low8(w)>>)

Push(m, w) ==
    WriteBytes([m EXCEPT !.regs["rsp"] = Sub64(@, Qword(8))], m.regs["rsp"].lo - 8,
               QwordBytes(w))
Pop(m, reg, junk) ==
    [m EXCEPT !.regs[reg] = BytesQword(ReadBytes(m, m.regs["rsp"].lo, 8, junk)),
              !.regs["rsp"] = IF reg = "rsp" THEN @ ELSE Add64(m.regs["rsp"], Qword(8))]

\* the condition codes, on the operands a, b of the last `cmp a, b` (test a, a is
\* cmp a, 0); None for a condition the model does not evaluate
Condition(flags, cc) ==
    IF flags = None THEN None
    ELSE LET a == flags[1].a
             b == flags[1].b
         IN  CASE cc = "e" -> Some(a = b)
               [] cc = "ne" -> Some(a # b)
               [] cc = "l" -> Some(Less64(a, b))
               [] cc = "ge" -> Some(~Less64(a, b))
               [] cc = "le" -> Some(Less64(a, b) \/ a = b)
               [] cc = "g" -> Some(Less64(b, a))
               [] cc = "s" -> Some(Sub64(a, b).hi < 0)
               [] cc = "ns" -> Some(Sub64(a, b).hi >= 0)
               [] OTHER -> None

SetFlags(m, a, b) == [m EXCEPT !.flags = Some([a |-> a, b |-> b])]
ClearFlags(m) == [m EXCEPT !.flags = None]

\* an external function returned: the registers its calling convention does not
\* preserve hold anything
Clobber(m, regs, junk) ==
    [m EXCEPT !.regs = [r \in DOMAIN m.regs |-> IF r \in regs THEN Qword(junk) ELSE m.regs[r]]]
Event(fn, arg, bytes) == [fn |-> fn, arg |-> arg, bytes |-> bytes]

\* kernel32 under the Win64 convention: arguments in rcx, rdx, r8, r9; rax, rcx, rdx,
\* r8..r11 and the 32 bytes of home space above rsp are not preserved
Win64Volatile == {"rcx", "rdx", "r8", "r9", "r10", "r11"}
Kernel32(m, sym, junk) ==
    LET after == Clobber(ForgetBytes(m, m.regs["rsp"].lo, 32), Win64Volatile, junk)
    IN  CASE sym = "GetStdHandle" ->
                [after EXCEPT !.regs["rax"] =
                    IF m.regs["rcx"].lo = -11 THEN Qword(7)
                    ELSE IF m.regs["rcx"].lo = -10 THEN Qword(3) ELSE Qword(-1)]
          [] sym = "WriteFile" ->
                IF m.regs["rcx"] = Qword(7) /\ IsSmall(m.regs["rdx"])
                   /\ m.regs["r8"].lo >= 0 /\ m.regs["r8"].lo <= 64
                THEN [after EXCEPT
                        !.regs["rax"] = Qword(1),
                        !.out = Append(@, Event("WriteFile", m.regs["rcx"],
                                               ReadBytes(m, m.regs["rdx"].lo,
                                                         m.regs["r8"].lo, junk)))]
                ELSE [after EXCEPT !.regs["rax"] = Qword(0),
                                   !.out = Append(@, Event("WriteFile", m.regs["rcx"], << >>))]
          [] sym = "ExitProcess" ->
                [m EXCEPT !.status = "exited", !.exit_code = ZeroExtend(m.regs["rcx"].lo)]
          [] OTHER -> CpuStop(m, "fault")

\* libc under the System V convention: arguments in rdi, rsi, ...; rax, rcx, rdx, rsi,
\* rdi and r8..r11 are not preserved.  A call of printf is recorded with its second
\* argument, the number the thunks print
SysVVolatile == {"rax", "rcx", "rdx", "rsi", "rdi", "r8", "r9", "r10", "r11"}
Libc(m, sym, junk) ==
    IF sym = "printf@PLT"
    THEN [Clobber(m, SysVVolatile, junk) EXCEPT
            !.out = Append(@, Event(sym, m.regs["rsi"], << >>))]
    ELSE IF sym = "putchar@PLT"
    THEN [Clobber(m, SysVVolatile, junk) EXCEPT
            !.out = Append(@, Event(sym, m.regs["rdi"], << >>))]
    ELSE CpuStop(m, "unmodelled")

\* one instruction
Execute(m, ins, junk) ==
    LET next == ins.next
        go == [m EXCEPT !.ip = next]
        dst == ReadOperand(m, ins.dst, ins.size, next, junk)
        src == ReadOperand(m, ins.src, ins.size, next, junk)
        store(w) == WriteOperand(go, ins.dst, ins.size, next, w)
        bad == \/ ins.dst.kind = "mem" /\ ~Addressable(m, ins.dst)
               \/ ins.src.kind = "mem" /\ ~Addressable(m, ins.src)
    IN  IF bad THEN CpuStop(m, "unmodelled")
        ELSE CASE ins.mn = "nop" -> go
          [] ins.mn = "mov" -> store(src)
          [] ins.mn = "movzx" ->
                WriteOperand(go, ins.dst, 8, next,
                             Qword(Low8(ReadOperand(m, ins.src, 1, next, junk))))
          [] ins.mn = "lea" ->
                WriteOperand(go, ins.dst, 8, next, Qword(EffectiveAddress(m, ins.src, next)))
          [] ins.mn = "push" -> Push(go, dst)
          [] ins.mn = "pop" -> [Pop(m, ins.dst.reg, junk) EXCEPT !.ip = next]
          [] ins.mn = "add" ->
                ClearFlags(IF ins.size = 1 THEN store(Qword((Low8(dst) + Low8(src)) % 256))
                           ELSE store(Add64(dst, src)))
          [] ins.mn = "sub" -> ClearFlags(store(Sub64(dst, src)))
          [] ins.mn = "xor" -> ClearFlags(store(Xor64(dst, src)))
          [] ins.mn = "neg" -> ClearFlags(store(Neg64(dst)))
          [] ins.mn = "inc" -> ClearFlags(store(Add64(dst, Qword(1))))
          [] ins.mn = "dec" -> ClearFlags(store(Sub64(dst, Qword(1))))
          [] ins.mn = "imul" ->
                IF Mul64(dst, src) = None THEN CpuStop(m, "unmodelled")
                ELSE ClearFlags(store(Mul64(dst, src)[1]))
          [] ins.mn = "sar" ->
                IF src.lo = 63 /\ ins.size = 8
                THEN ClearFlags(store(Qword(IF dst.hi < 0 THEN -1 ELSE 0)))
                ELSE CpuStop(m, "unmodelled")
          [] ins.mn = "cqo" ->
                [go EXCEPT !.regs["rdx"] = Qword(IF m.regs["rax"].hi < 0 THEN -1 ELSE 0)]
          [] ins.mn \in {"div", "idiv"} ->
                IF dst = Qword(0) THEN CpuStop(m, "fault")
                ELSE IF ~IsDivisor(dst) THEN CpuStop(m, "unmodelled")
                ELSE LET res == IF ins.mn = "div"
                                THEN Div128(m.regs["rdx"], m.regs["rax"], dst)
                                ELSE IDiv128(m.regs["rdx"], m.regs["rax"], dst)
                     IN  IF ~res.ok THEN CpuStop(m, "fault")
                         ELSE ClearFlags([go EXCEPT !.regs["rax"] = res.q,
                                                    !.regs["rdx"] = res.r])
          [] ins.mn = "cmp" ->
                IF ins.size = 8 THEN SetFlags(go, dst, src) ELSE CpuStop(m, "unmodelled")
          [] ins.mn = "test" ->
                IF ins.dst = ins.src /\ ins.size = 8 THEN SetFlags(go, dst, Qword(0))
                ELSE CpuStop(m, "unmodelled")
          [] ins.mn = "set" ->
                IF Condition(m.flags, ins.cc) = None THEN CpuStop(m, "unmodelled")
                ELSE WriteOperand(go, ins.dst, 1, next,
                                  Qword(IF Condition(m.flags, ins.cc)[1] THEN 1 ELSE 0))
          [] ins.mn = "jmp" -> [m EXCEPT !.ip = ins.target]
          [] ins.mn = "j" ->
                IF Condition(m.flags, ins.cc) = None THEN CpuStop(m, "unmodelled")
                ELSE [m EXCEPT !.ip = IF Condition(m.flags, ins.cc)[1] THEN ins.target
                                      ELSE next]
          [] ins.mn = "call" -> [Push(m, Qword(next)) EXCEPT !.ip = ins.target]
          [] ins.mn = "ret" ->
                LET to == BytesQword(ReadBytes(m, m.regs["rsp"].lo, 8, junk))
                    popped == [m EXCEPT !.regs["rsp"] = Add64(@, Qword(8))]
                IN  IF to = Qword(0)
                    THEN [popped EXCEPT !.status = "exited", !.exit_code = m.regs["rax"]]
                    ELSE [popped EXCEPT !.ip = to.lo]
          [] ins.mn = "leave" ->
                [Pop([m EXCEPT !.regs["rsp"] = m.regs["rbp"]], "rbp", junk) EXCEPT !.ip = next]
          [] ins.mn = "extern" ->
                IF m.arch = "pe" THEN [Kernel32(Push(m, Qword(next)), ins.sym, junk)
                                         EXCEPT !.ip = next, !.regs["rsp"] = m.regs["rsp"]]
                ELSE [Libc(m, ins.sym, junk) EXCEPT !.ip = next]
          [] OTHER -> CpuStop(m, "unmodelled")

(***************************************************************************)
(* Decoding the machine code of a written PE file: legacy-free x86-64      *)
(* with an optional REX prefix, one- and two-byte opcodes, ModRM with the  *)
(* SIB byte 0x24 ([rsp + disp]) and rip-relative addressing.               *)
(***************************************************************************)
Signed8(b) == IF b >= 128 THEN b - 256 ELSE b
ConditionCodes == <<"o", "no", "b", "ae", "e", "ne", "be", "a",
                    "s", "ns", "p", "np", "l", "ge", "le", "g">>
Unmodelled == Instruction("unmodelled", 0, NoOperand, NoOperand, 0)

\* the r/m operand of the ModRM byte at 0-based position p: the operand, the register
\* field and the bytes ModRM, SIB and displacement occupy
ModRM(b, p, rex) ==
    LET byte == b[p + 1]
        mod == byte \div 64
        rm == byte % 8
        ext == IF (rex % 2) = 1 THEN 8 ELSE 0
        sib == mod # 3 /\ rm = 4
        at == IF sib THEN p + 2 ELSE p + 1
        base == IF sib THEN "rsp" ELSE RegNames[rm + ext + 1]
    IN  [reg |-> ((byte \div 8) % 8) + (IF ((rex \div 4) % 2) = 1 THEN 8 ELSE 0),
         ok |-> ~sib \/ b[p + 2] = \h24,
         opnd |-> CASE mod = 3 -> RegOperand(RegNames[rm + ext + 1])
                    [] mod = 0 /\ rm = 5 -> MemOperand("rip", from_le_bytes(b, at))
                    [] mod = 0 -> MemOperand(base, 0)
                    [] mod = 1 -> MemOperand(base, Signed8(b[at + 1]))
                    [] OTHER -> MemOperand(base, from_le_bytes(b, at)),
         len |-> (at - p) + (CASE mod = 3 -> 0
                               [] mod = 0 /\ rm = 5 -> 4
                               [] mod = 0 -> 0
                               [] mod = 1 -> 1
                               [] OTHER -> 4)]

\* the instruction at 0-based position p of the bytes b; the positions in the result are
\* relative to the same origin as p
Decode(b, p) ==
    LET rex == IF b[p + 1] \div 16 = 4 THEN b[p + 1] % 16 ELSE 0
        o == IF b[p + 1] \div 16 = 4 THEN p + 1 ELSE p
        op == b[o + 1]
        two == op = \h0F
        op2 == b[o + 2]
        size == IF rex \div 8 = 1 THEN 8 ELSE 4
        extB == IF (rex % 2) = 1 THEN 8 ELSE 0
        m == ModRM(b, IF two THEN o + 2 ELSE o + 1, rex)
        after == (IF two THEN o + 2 ELSE o + 1) + m.len
        r == RegOperand(RegNames[m.reg + 1])
        group == m.reg % 8
        \* without REX the byte registers 4..7 are ah, ch, dh, bh
        byteOk(opnd) == opnd.kind # "reg" \/ rex # 0
                        \/ opnd.reg \in {"rax", "rcx", "rdx", "rbx"}
        rm_r(mn, sz) == IF m.ok /\ (sz # 1 \/ (byteOk(m.opnd) /\ byteOk(r)))
                        THEN Instruction(mn, sz, m.opnd, r, after) ELSE Unmodelled
        r_rm(mn, sz) == IF m.ok THEN Instruction(mn, sz, r, m.opnd, after) ELSE Unmodelled
        rm_imm8(mn, sz) ==
            IF m.ok /\ (sz # 1 \/ byteOk(m.opnd))
            THEN Instruction(mn, sz, m.opnd,
                             ImmOperand(IF sz = 1 THEN Qword(b[after + 1])
                                        ELSE Qword(Signed8(b[after + 1]))), after + 1)
            ELSE Unmodelled
        rm_only(mn) == IF m.ok THEN Instruction(mn, size, m.opnd, NoOperand, after)
                       ELSE Unmodelled
        jump(mn, cc, to, next) ==
            [Instruction(mn, 0, NoOperand, NoOperand, next) EXCEPT !.cc = cc, !.target = to]
    IN  CASE op >= \h50 /\ op < \h58 ->
                Instruction("push", 8, RegOperand(RegNames[op - \h50 + extB + 1]), NoOperand,
                            o + 1)
          [] op >= \h58 /\ op < \h60 ->
                Instruction("pop", 8, RegOperand(RegNames[op - \h58 + extB + 1]), NoOperand,
                            o + 1)
          [] op >= \hB8 /\ op < \hC0 ->
                IF size = 8
                THEN Instruction("mov", 8, RegOperand(RegNames[op - \hB8 + extB + 1]),
                                 ImmOperand(BytesQword(SubSeq(b, o + 2, o + 9))), o + 9)
                ELSE Instruction("mov", 4, RegOperand(RegNames[op - \hB8 + extB + 1]),
                                 ImmOperand(ZeroExtend(from_le_bytes(b, o + 1))), o + 5)
          [] op = \hC3 -> Instruction("ret", 8, NoOperand, NoOperand, o + 1)
          [] op = \hE9 -> jump("jmp", "", o + 5 + from_le_bytes(b, o + 1), o + 5)
          [] op = \hEB -> jump("jmp", "", o + 2 + Signed8(b[o + 2]), o + 2)
          [] op >= \h70 /\ op < \h80 ->
                jump("j", ConditionCodes[op - \h70 + 1], o + 2 + Signed8(b[o + 2]), o + 2)
          [] two /\ op2 >= \h80 /\ op2 < \h90 ->
                jump("j", ConditionCodes[op2 - \h80 + 1], o + 6 + from_le_bytes(b, o + 2), o + 6)
          [] two /\ op2 >= \h90 /\ op2 < \hA0 ->
                IF m.ok /\ byteOk(m.opnd)
                THEN [Instruction("set", 1, m.opnd, NoOperand, after)
                         EXCEPT !.cc = ConditionCodes[op2 - \h90 + 1]]
                ELSE Unmodelled
          [] two /\ op2 = \hB6 ->
                IF byteOk(m.opnd) THEN r_rm("movzx", 8) ELSE Unmodelled
          [] two /\ op2 = \hAF -> r_rm("imul", size)
          [] two -> Unmodelled
          [] op = \h01 -> rm_r("add", size)
          [] op = \h05 ->
                Instruction("add", size, RegOperand("rax"),
                            ImmOperand(Qword(from_le_bytes(b, o + 1))), o + 5)
          [] op = \h6B ->
                \* imul r, r/m, imm8 with r/m the register r itself
                IF m.ok /\ m.opnd = r
                THEN Instruction("imul", size, r, ImmOperand(Qword(Signed8(b[after + 1]))),
                                 after + 1)
                ELSE Unmodelled
          [] op = \h29 -> rm_r("sub", size)
          [] op = \h31 -> rm_r("xor", size)
          [] op = \h39 -> rm_r("cmp", size)
          [] op = \h85 -> rm_r("test", size)
          [] op = \h88 -> rm_r("mov", 1)
          [] op = \h89 -> rm_r("mov", size)
          [] op = \h8B -> r_rm("mov", size)
          [] op = \h8D -> IF m.opnd.kind = "mem" THEN r_rm("lea", 8) ELSE Unmodelled
          [] op = \h83 /\ group = 0 -> rm_imm8("add", size)
          [] op = \h83 /\ group = 5 -> rm_imm8("sub", size)
          [] op = \h80 /\ group = 0 -> rm_imm8("add", 1)
          [] op = \hC6 /\ group = 0 -> rm_imm8("mov", 1)
          [] op = \hC1 /\ group = 7 -> rm_imm8("sar", size)
          [] op = \hC7 /\ group = 0 ->
                IF m.ok
                THEN Instruction("mov", size, m.opnd,
                                 ImmOperand(Qword(from_le_bytes(b, after))), after + 4)
                ELSE Unmodelled
          [] op = \hF7 /\ group = 3 -> rm_only("neg")
          [] op = \hF7 /\ group = 6 -> rm_only("div")
          [] op = \hF7 /\ group = 7 -> rm_only("idiv")
          [] op = \hFF /\ group = 0 -> rm_only("inc")
          [] op = \hFF /\ group = 1 -> rm_only("dec")
          [] op = \hFF /\ group = 2 /\ m.opnd.kind = "mem" /\ m.opnd.reg = "rip" ->
                Instruction("extern", 8, m.opnd, NoOperand, after)
          [] OTHER -> Unmodelled

\* the names kernel32.dll exports that the code calls, as their bytes
Kernel32Names ==
    { <<"GetStdHandle", <<\h47, \h65, \h74, \h53, \h74, \h64, \h48, \h61, \h6E, \h64, \h6C, \h65, \h00>> >>,
      <<"WriteFile", <<\h57, \h72, \h69, \h74, \h65, \h46, \h69, \h6C, \h65, \h00>> >>,
      <<"ReadFile", <<\h52, \h65, \h61, \h64, \h46, \h69, \h6C, \h65, \h00>> >>,
      <<"FlushFileBuffers", <<\h46, \h6C, \h75, \h73, \h68, \h46, \h69, \h6C, \h65, \h42, \h75, \h66, \h66, \h65, \h72, \h73, \h00>> >>,
      <<"ExitProcess", <<\h45, \h78, \h69, \h74, \h50, \h72, \h6F, \h63, \h65, \h73, \h73, \h00>> >> }

\* what the loader binds to the 8-byte slot at an RVA: the export named by the hint/name
\* entry the slot of the import address table points to; "" when the RVA is not such a slot
PeBound(file, rva) ==
    LET slots == {k \in 0..2 : rva = PeIatRva(file) + 8 * k}
        name == PeFileOffset(file, from_le_bytes(file, PeFileOffset(file, rva))) + 2
        hits == {n \in Kernel32Names :
                    /\ name >= 0 /\ name + Len(n[2]) <= Len(file)
                    /\ SubSeq(file, name + 1, name + Len(n[2])) = n[2]}
    IN  IF slots = {} \/ PeFileOffset(file, rva) < 0 \/ PeFileOffset(file, rva) + 8 > Len(file)
           \/ hits = {}
        THEN ""
        ELSE (CHOOSE n \in hits : TRUE)[1]

\* the instruction at the 0-based offset ip of the code section of a written file
PeFetch(file, ip) ==
    IF ip < 0 \/ \h200 + ip + 16 > Len(file) THEN Unmodelled
    ELSE LET ins == Decode(SubSeq(file, \h200 + ip + 1, \h200 + ip + 16), 0)
             moved == [ins EXCEPT !.next = @ + ip, !.target = @ + ip]
         IN  IF ins.mn = "extern"
             THEN [moved EXCEPT !.sym = PeBound(file, \h1000 + moved.next + ins.dst.disp),
                                !.target = \h1000 + moved.next + ins.dst.disp]
             ELSE moved

(***************************************************************************)
(* Decoding the lines of the assembly text the ELF backend writes (AT&T    *)
(* syntax: source first, destination second).  The address of a line is    *)
(* its index; a label stands for the index of its line.  A line is read    *)
(* by matching it against the forms the generator can print.               *)
(***************************************************************************)
\* the integers a `$n` operand is matched against
Immediates == {0, 1, 2, 3, 4, 5, 6, 7, 8, 16, 64, 1000000000}
\* the offsets an `n(%rbp)` operand is matched against
FrameOffsets == {-8 * k : k \in 1..24}

LabelLines(lines, name) == {i \in 1..Len(lines) : lines[i] = <<"label", name, "">>}

ElfOperand(lines, s) ==
    LET regs == {i \in 1..Len(RegNames) : s = "%" \o RegNames[i]}
        imms == {k \in Immediates \cup FrameOffsets : s = "$" \o ToString(k)}
        slots == {off \in FrameOffsets : s = FrameSlot(off)}
        data == {i \in 1..Len(lines) :
                    lines[i][1] = "label" /\ s = lines[i][2] \o "(%rip)"}
    IN  IF regs # {} THEN RegOperand(RegNames[CHOOSE i \in regs : TRUE])
        ELSE IF s = "%eax" \/ s = "%al" THEN RegOperand("rax")
        ELSE IF s = "%edi" THEN RegOperand("rdi")
        ELSE IF imms # {} THEN ImmOperand(Qword(CHOOSE k \in imms : TRUE))
        ELSE IF slots # {} THEN MemOperand("rbp", CHOOSE off \in slots : TRUE)
        ELSE IF s = "(%rax)" THEN MemOperand("rax", 0)
        ELSE IF data # {} THEN ImmOperand(Qword(CHOOSE i \in data : TRUE))
        ELSE NoOperand

SetMnemonics == {<<"sete", "e">>, <<"setne", "ne">>, <<"setl", "l">>, <<"setle", "le">>,
                 <<"setg", "g">>, <<"setge", "ge">>}

\* the instruction of line i
ElfFetch(lines, i) ==
    IF i < 1 \/ i > Len(lines) THEN Unmodelled
    ELSE
    LET mn == lines[i][1]
        a == ElfOperand(lines, lines[i][2])
        b == ElfOperand(lines, lines[i][3])
        two(name, size) == IF a.kind = "none" \/ b.kind \in {"none", "imm"} THEN Unmodelled
                           ELSE Instruction(name, size, b, a, i + 1)
        one(name, size) == IF a.kind = "none" THEN Unmodelled
                           ELSE Instruction(name, size, a, NoOperand, i + 1)
        to == LabelLines(lines, lines[i][2])
        jump(name, cc) ==
            IF to = {} THEN Unmodelled
            ELSE [Instruction(name, 0, NoOperand, NoOperand, i + 1)
                     EXCEPT !.cc = cc, !.target = CHOOSE t \in to : TRUE]
        sets == {p \in SetMnemonics : p[1] = mn}
    IN  CASE mn \in {"label", ".globl", ".text", ".section", ".string"} ->
                Instruction("nop", 0, NoOperand, NoOperand, i + 1)
          [] mn = "movq" -> two("mov", 8)
          [] mn = "movl" -> two("mov", 4)
          [] mn = "leaq" -> IF a.kind = "imm" THEN two("mov", 8)
                            ELSE IF a.kind = "mem" THEN two("lea", 8) ELSE Unmodelled
          [] mn = "addq" -> two("add", 8)
          [] mn = "subq" -> two("sub", 8)
          [] mn = "imulq" -> two("imul", 8)
          [] mn = "xorl" -> two("xor", 4)
          [] mn = "cmpq" -> two("cmp", 8)
          [] mn = "testq" -> two("test", 8)
          [] mn = "movzbq" -> two("movzx", 8)
          [] mn = "pushq" -> one("push", 8)
          [] mn = "popq" -> one("pop", 8)
          [] mn = "negq" -> one("neg", 8)
          [] mn = "idivq" -> one("idiv", 8)
          [] mn = "cqto" -> Instruction("cqo", 8, NoOperand, NoOperand, i + 1)
          [] mn = "leave" -> Instruction("leave", 8, NoOperand, NoOperand, i + 1)
          [] mn = "ret" -> Instruction("ret", 8, NoOperand, NoOperand, i + 1)
          [] sets # {} -> [one("set", 1) EXCEPT !.cc = (CHOOSE p \in sets : TRUE)[2]]
          [] mn = "jmp" -> jump("jmp", "")
          [] mn = "je" -> jump("j", "e")
          [] mn = "call" ->
                IF to # {} THEN jump("call", "")
                ELSE [Instruction("extern", 8, NoOperand, NoOperand, i + 1)
                         EXCEPT !.sym = lines[i][2]]
          [] OTHER -> Unmodelled

(***************************************************************************)
(* The meaning of a program, as the language defines it: integers with     *)
(* truncating division, a remainder with the sign of the dividend,         *)
(* comparisons yielding 1 or 0, a function that ends where it returns.     *)
(* The test programs keep every value inside the 32-bit range.             *)
(***************************************************************************)
Abs(v) == IF v < 0 THEN -v ELSE v
Truncated(a, b) == IF (a < 0) # (b < 0) THEN -(Abs(a) \div Abs(b)) ELSE Abs(a) \div Abs(b)
Truth(p) == IF p THEN 1 ELSE 0
RefBinary(op, a, b) ==
    CASE op = "Add" -> a + b
      [] op = "Sub" -> a - b
      [] op = "Mul" -> a * b
      [] op = "Div" -> Truncated(a, b)
      [] op = "Mod" -> a - (b * Truncated(a, b))
      [] op = "Equal" -> Truth(a = b)
      [] op = "NotEqual" -> Truth(a # b)
      [] op = "Less" -> Truth(a < b)
      [] op = "LessEqual" -> Truth(a <= b)
      [] op = "Greater" -> Truth(a > b)
      [] op = "GreaterEqual" -> Truth(a >= b)
      [] OTHER -> 0

\* the name under which the environment holds element i of an array
Element(name, i) == name \o "[" \o ToString(i) \o "]"
\* a new array: every element is 0
RECURSIVE RefZeroArray(_, _, _)
RefZeroArray(env, name, size) ==
    IF size = 0 THEN env
    ELSE RefZeroArray(MapInsert(env, Element(name, size - 1), 0), name, size - 1)

RECURSIVE RefExpr(_, _, _), RefStmts(_, _, _), RefCall(_, _, _), RefArgs(_, _, _)
RefExpr(prog, env, e) ==
    CASE e.tag = "Number" -> e.n
      [] e.tag = "Identifier" -> IF e.name \in DOMAIN env THEN env[e.name] ELSE 0
      [] e.tag = "Binary" ->
            RefBinary(e.op, RefExpr(prog, env, e.left), RefExpr(prog, env, e.right))
      [] e.tag = "Unary" ->
            IF e.op = "Neg" THEN -RefExpr(prog, env, e.operand)
            ELSE Truth(RefExpr(prog, env, e.operand) = 0)
      [] e.tag = "Call" -> RefCall(prog, e.function, RefArgs(prog, env, e.args))
      [] e.tag = "ArrayAccess" ->
            IF Element(e.name, RefExpr(prog, env, e.index)) \in DOMAIN env
            THEN env[Element(e.name, RefExpr(prog, env, e.index))] ELSE 0
      [] OTHER -> 0

RefArgs(prog, env, args) == [i \in 1..Len(args) |-> RefExpr(prog, env, args[i])]

\* the statements of one body: the variables at its end and the value returned, if any
RefStmts(prog, env, stmts) ==
    IF stmts = << >> THEN [env |-> env, ret |-> None]
    ELSE LET s == Head(stmts)
         IN  CASE s.tag = "VarDecl" ->
                    RefStmts(prog,
                             \* a declaration without initializer declares the name; the
                             \* programs checked assign it before they read it
                             MapInsert(env, s.name,
                                       IF s.value # None THEN RefExpr(prog, env, s.value[1])
                                       ELSE 0),
                             Tail(stmts))
               [] s.tag = "ArrayDecl" ->
                    RefStmts(prog, RefZeroArray(env, s.name, s.size), Tail(stmts))
               [] s.tag = "ArrayAssignment" ->
                    RefStmts(prog,
                             IF Element(s.name, RefExpr(prog, env, s.index)) \in DOMAIN env
                             THEN MapInsert(env, Element(s.name, RefExpr(prog, env, s.index)),
                                            RefExpr(prog, env, s.value))
                             ELSE env,
                             Tail(stmts))
               [] s.tag = "Assignment" ->
                    RefStmts(prog,
                             IF s.name \in DOMAIN env
                             THEN MapInsert(env, s.name, RefExpr(prog, env, s.value))
                             ELSE env,
                             Tail(stmts))
               [] s.tag = "Return" ->
                    [env |-> env,
                     ret |-> Some(IF s.value # None THEN RefExpr(prog, env, s.value[1]) ELSE 0)]
               [] s.tag = "If" ->
                    LET r == RefStmts(prog, env,
                                      IF RefExpr(prog, env, s.condition) # 0 THEN s.then_body
                                      ELSE IF s.else_body # None THEN s.else_body[1]
                                      ELSE << >>)
                    IN  IF r.ret # None THEN r ELSE RefStmts(prog, r.env, Tail(stmts))
               [] OTHER -> RefStmts(prog, env, Tail(stmts))

RefCall(prog, name, args) ==
    LET f == FindFunction(prog.functions, name)
        r == RefStmts(prog, [i \in {f[1].params[k] : k \in 1..Len(f[1].params)} |->
                                args[CHOOSE k \in 1..Len(f[1].params) : f[1].params[k] = i]],
                      f[1].body)
    IN  IF f = None THEN 0 ELSE IF r.ret # None THEN r.ret[1] ELSE 0

\* the variables of main when main ends
RefMain(prog) == RefStmts(prog, EmptyMap, FindFunction(prog.functions, "main")[1].body).env

(***************************************************************************)
(* Running what was written.  CpuLoad enters the program: the entry point  *)
(* of the PE file, or main of the linked assembly text.  CpuStep executes  *)
(* one instruction, with any value for what the instruction reads from a   *)
(* cell nothing wrote or leaves in a register the callee may change.       *)
(***************************************************************************)
Fetch(m) == IF m.arch = "pe" THEN PeFetch(m.image, m.ip) ELSE ElfFetch(m.image, m.ip)

CpuLoad ==
    /\ target \in {"pe", "elf"} /\ pc = "done" /\ outcome = "success" /\ cpu = None
    /\ cpu' = Some(IF target = "pe" THEN CpuNew("pe", artifact[1].content, 0)
                   ELSE CpuNew("elf", artifact[1].content,
                               CHOOSE i \in LabelLines(artifact[1].content, "main") : TRUE))
    /\ UNCHANGED <<source_file, output_file, fs, target, program, pc, visited, fn_index, asm,
                   nvm, cg, artifact, console, outcome, vm, ld>>

CpuStep ==
    /\ cpu # None /\ cpu[1].status = "running"
    /\ \E junk \in JunkBytes : cpu' = Some(Execute(cpu[1], Fetch(cpu[1]), junk))
    /\ UNCHANGED <<source_file, output_file, fs, target, program, pc, visited, fn_index, asm,
                   nvm, cg, artifact, console, outcome, vm, ld>>

\* func main() { println(n) } and import "stdio"; func main() { stdio.Println(n) }
ItoaPrograms ==
    {PrintProgram(n) : n \in VmInputs}
    \cup {Program(<< Function("main", << >>,
                        << ExpressionStmt(Call("println",
                               << IF n < 0 THEN Unary("Neg", Number(-n)) ELSE Number(n) >>)) >>,
                        FALSE) >>, Modules(<< >>)) : n \in VmInputs}

InitItoa ==
    /\ target = "pe"
    /\ cpu = None
    /\ source_file = MainPer
    /\ output_file = OutputFile(target, source_file)
    /\ fs = {}
    /\ program \in ItoaPrograms
    /\ pc = "start"
    /\ visited = << >>
    /\ fn_index = 1
    /\ asm = AsmNew
    /\ nvm = NVMCodeGenNew
    /\ cg = CodeGenNew
    /\ artifact = None
    /\ console = << >>
    /\ outcome = "running"
    /\ vm = None
    /\ ld = None

NextItoa == PeCodeGen \/ PeWrite \/ CpuLoad \/ CpuStep

SpecItoa == InitItoa /\ [][NextItoa]_vars /\ WF_vars(CpuLoad \/ CpuStep)

\* the parser reads -k as Neg applied to k
Literal(n) == IF n < 0 THEN Unary("Neg", Number(-n)) ELSE Number(n)
MainOnly(body) == Program(<< Function("main", << >>, body, FALSE) >>, Modules(<< >>))

\* func main() { var x = a OP b }
CheckedOps == {"Sub", "Div", "Mod", "Less", "LessEqual", "Greater", "GreaterEqual"}
LeftOperands == {-1000000000, -7, 7}
RightOperands == {1, 2, -2}
BinaryPrograms ==
    {MainOnly(<< VarDecl("x", Some(Binary(op, Literal(a), Literal(b)))) >>) :
        op \in CheckedOps, a \in LeftOperands, b \in RightOperands}

\* func main() { var x = (a OP b) OP c } and func main() { var x = a OP (b OP c) }
NestedPrograms ==
    {MainOnly(<< VarDecl("x", Some(Binary(op1, Binary(op2, Literal(a), Number(5)),
                                          Number(3)))) >>) :
        op1 \in {"Sub", "Div", "Less"}, op2 \in {"Sub", "Div"}, a \in {7, -7}}
    \cup {MainOnly(<< VarDecl("x", Some(Binary(op1, Literal(a),
                                               Binary(op2, Number(5), Number(3))))) >>) :
        op1 \in {"Sub", "Div", "Less"}, op2 \in {"Sub", "Div"}, a \in {7, -7}}

\* func main() { var x = a / b } and func main() { var x = a % b }
DivisionPrograms ==
    {prog \in BinaryPrograms : prog.functions[1].body[1].value[1].op \in {"Div", "Mod"}}

\* import "stdio"
\* func f(x) { if x { return 1 } return 2 }            func main() { var r = f(a) }
\* func f(x) { return x + 1 }                          func main() { var r = f(a) }
\* func f(x) { return x  stdio.Println(5) }            func main() { var r = f(a) }
\* func f(x) { if x { return 4 } else { return 6 }  stdio.Println(5)  return 7 }
ReturnBodies ==
    { << IfStmt(Identifier("x"), << Return(Some(Number(1))) >>, None),
         Return(Some(Number(2))) >>,
      << Return(Some(Binary("Add", Identifier("x"), Number(1)))) >>,
      << Return(Some(Identifier("x"))),
         ExpressionStmt(ModuleCall("stdio", "Println", << Number(5) >>)) >>,
      << IfStmt(Identifier("x"), << Return(Some(Number(4))) >>,
                Some(<< Return(Some(Number(6))) >>)),
         ExpressionStmt(ModuleCall("stdio", "Println", << Number(5) >>)),
         Return(Some(Number(7))) >> }
ReturnPrograms ==
    {Program(<< Function("f", <<"x">>, body, FALSE),
                Function("main", << >>,
                         << VarDecl("r", Some(Call("f", << Number(a) >>))) >>, FALSE) >>,
             Modules(<< StdioModule >>)) : body \in ReturnBodies, a \in {0, 3}}

\* import "stdio"
\* func p(x) { stdio.Println(x)  return x }
\* func f(a1, .., an) { return a1 }
\* func main() { var r = f(p(1) + 1, p(2), .., p(n)) }
ArgNames == <<"a1", "a2", "a3", "a4", "a5", "a6">>
ArgPrograms ==
    {Program(<< Function("p", <<"x">>,
                         << ExpressionStmt(ModuleCall("stdio", "Println",
                                                      << Identifier("x") >>)),
                            Return(Some(Identifier("x"))) >>, FALSE),
                Function("f", SubSeq(ArgNames, 1, n),
                         << Return(Some(Identifier("a1"))) >>, FALSE),
                Function("main", << >>,
                         << VarDecl("r", Some(Call("f",
                                [i \in 1..n |->
                                    IF i = 1
                                    THEN Binary("Add", Call("p", << Number(1) >>), Number(1))
                                    ELSE Call("p", << Number(i) >>)]))) >>, FALSE) >>,
             Modules(<< StdioModule >>)) : n \in 1..Len(arg_regs)}

InitNative ==
    /\ \/ target \in {"elf", "pe"}
          /\ program \in BinaryPrograms \cup NestedPrograms \cup ReturnPrograms
       \/ target = "elf" /\ program \in ArgPrograms
    /\ cpu = None
    /\ source_file = MainPer
    /\ output_file = OutputFile(target, source_file)
    /\ fs = {}
    /\ pc = "start"
    /\ visited = << >>
    /\ fn_index = 1
    /\ asm = AsmNew
    /\ nvm = NVMCodeGenNew
    /\ cg = CodeGenNew
    /\ artifact = None
    /\ console = << >>
    /\ outcome = "running"
    /\ vm = None
    /\ ld = None

NextNative ==
    \/ ElfText \/ ElfModule \/ ElfFunction \/ ElfMain \/ ElfWrite \/ ElfGcc \/ ElfGccMissing
    \/ PeCodeGen \/ PeWrite
    \/ CpuLoad \/ CpuStep

SpecNative == InitNative /\ [][NextNative]_vars /\ WF_vars(CpuLoad \/ CpuStep)

\* the machine ran the program to its end
Exited == cpu # None /\ cpu[1].status = "exited"
\* the machine stopped on a fault, or on an instruction outside the reference machine
Stuck == cpu # None /\ cpu[1].status \in {"fault", "unmodelled"}
\* the word in the frame slot the generator gave a variable of main; the frame of main
\* starts one push below the initial stack pointer
Variables == IF target = "pe" THEN cg.variables ELSE asm.variables
MainVariable(name) ==
    BytesQword([i \in 1..8 |-> cpu[1].mem[StackTop - 8 + Variables[name] + i - 1]])
\* the numbers printed so far, on the ELF target
Printed == [i \in 1..Len(cpu[1].out) |-> cpu[1].out[i].arg.lo]

\* C15: on the PE backend the buffer the inlined itoa of println hands to WriteFile is,
\* for every n of {-10^9, -1, 0, 1, 10, 10^9}, exactly the decimal string of n followed by
\* one newline: no byte more, and none the routine did not write.
C15_PeItoa ==
    (target = "pe" /\ cpu # None) =>
        \A i \in 1..Len(cpu[1].out) :
            cpu[1].out[i].fn = "WriteFile" =>
                cpu[1].out[i].bytes = DecimalString(PrintedNumber) \o <<10>>


\* C16: on both native backends a `return <expr>` inside a function other than main ends
\* the function: the caller receives the value of <expr> (here stored in its variable r),
\* and no statement that follows the return in the body is executed (here the only
\* statements that print follow a return, so nothing is printed).
C16_ReturnEnds ==
    (program \in ReturnPrograms /\ cpu # None) =>
        /\ ~Stuck
        /\ cpu[1].out = << >>
        /\ Exited => MainVariable("r") = Qword(RefMain(program)["r"])


\* the machine is about to execute `call name`
AtCall(name) ==
    /\ cpu # None /\ cpu[1].status = "running" /\ cpu[1].arch = "elf"
    /\ Fetch(cpu[1]).mn = "call"
    /\ Fetch(cpu[1]).target \in LabelLines(cpu[1].image, name)
\* the arguments of the call of f in main, and the register of the i-th
CallArgs == FindFunction(program.functions, "main")[1].body[1].value[1].args
ArgRegister(i) == CHOOSE r \in Range(RegNames) : "%" \o r = arg_regs[i]
ArgsInRegisters ==
    \A i \in 1..Len(CallArgs) :
        cpu[1].regs[ArgRegister(i)] = Qword(RefExpr(program, EmptyMap, CallArgs[i]))

C18_SignedDivision ==
    (program \in DivisionPrograms /\ cpu # None) =>
        /\ ~Stuck
        /\ (cpu[1].status = "running" /\ Fetch(cpu[1]).mn = "idiv") =>
              cpu[1].regs["rdx"] = Qword(IF cpu[1].regs["rax"].hi < 0 THEN -1 ELSE 0)
        /\ Exited => MainVariable("x") = Qword(RefMain(program)["x"])


\* C19: on both native backends the value of a binary expression is `left OP right` for
\* subtraction, division, modulo and the four ordering comparisons, also when an operand
\* is itself a binary expression (here the value is stored in the variable x).
C19_OperandOrder ==
    (program \in BinaryPrograms \cup NestedPrograms /\ cpu # None) =>
        /\ ~Stuck
        /\ Exited => MainVariable("x") = Qword(RefMain(program)["x"])


(***************************************************************************)
(* Frames.  Programs that declare, assign and read variables, compiled by  *)
(* the three backends; the native outputs are run on the reference x86-64  *)
(* machine.                                                                *)
(***************************************************************************)
\* func main() { var a [= 3]  var b [= 4]  a = 7  b = 5  var c = a + b }
Initializers == {None, Some(Number(3))}
SlotPrograms ==
    {MainOnly(<< VarDecl("a", ia), VarDecl("b", ib), Assignment("a", Number(7)),
                 Assignment("b", Number(5)),
                 VarDecl("c", Some(Binary("Add", Identifier("a"), Identifier("b")))) >>) :
        ia \in Initializers, ib \in Initializers}

\* import "math"
\* func f(p) { var t = p + 1  return t }
\* func g() { return <0, x or t> }          x is a local of main, t a local of f
\* func main() { var x = 5  var r = f(x)  var s = g()  var u = math.Twice(x) }
ScopePrograms ==
    {Program(<< Function("f", <<"p">>,
                         << VarDecl("t", Some(Binary("Add", Identifier("p"), Number(1)))),
                            Return(Some(Identifier("t"))) >>, FALSE),
                Function("g", << >>, << Return(Some(e)) >>, FALSE),
                Function("main", << >>,
                         << VarDecl("x", Some(Number(5))),
                            VarDecl("r", Some(Call("f", << Identifier("x") >>))),
                            VarDecl("s", Some(Call("g", << >>))),
                            VarDecl("u", Some(ModuleCall("math", "Twice",
                                                         << Identifier("x") >>))) >>,
                         FALSE) >>,
             Modules(<< MathModule >>)) : e \in {Number(0), Identifier("x"), Identifier("t")}}


\* func main() { var x = 1  var a [n]int  var y = 2  a[i] = 5  a[j] = 6  var r = a[i] }
ArraySizes == {1, 2, 7, 17}
ArrayPrograms ==
    UNION {{MainOnly(<< VarDecl("x", Some(Number(1))), ArrayDecl("a", n),
                        VarDecl("y", Some(Number(2))),
                        ArrayAssignment("a", Number(i), Number(5)),
                        ArrayAssignment("a", Number(j), Number(6)),
                        VarDecl("r", Some(ArrayAccess("a", Number(i)))) >>) :
              i \in {0, n - 1}, j \in {0, n - 1}} : n \in ArraySizes}

\* import "stdio"  func main() { stdio.F("...") } for the five printing functions
PrintFunctions == {"Print", "Println", "PrintStr", "PrintlnStr", "PrintChar"}
PrintTexts == {<< >>, <<72>>, <<72, 105, 200>>}
PrintPrograms ==
    {Program(<< Function("main", << >>,
                         << ExpressionStmt(ModuleCall("stdio", f, << StringLit(s) >>)) >>,
                         FALSE) >>,
             Modules(<< StdioModule >>)) : f \in PrintFunctions, s \in PrintTexts}

\* func main() { var x = 1  S } where S declares, assigns or evaluates an expression over
\* 2, x, the unary operators and every binary operator tag
BinaryOps == {"Add", "Sub", "Mul", "Div", "Mod", "Equal", "NotEqual", "Less", "LessEqual",
              "Greater", "GreaterEqual", "And", "Or", "Concat"}
EffectAtoms == {Number(2), Identifier("x")}
EffectExprs ==
    EffectAtoms
    \cup {Unary(op, a) : op \in {"Neg", "Not"}, a \in EffectAtoms}
    \cup {Binary(op, a, b) : op \in BinaryOps, a \in EffectAtoms, b \in EffectAtoms}
    \cup {Binary(op1, Binary(op2, Identifier("x"), Number(2)), Unary("Neg", Identifier("x"))) :
             op1 \in {"Add", "LessEqual", "And", "Concat"},
             op2 \in {"Sub", "GreaterEqual", "Or", "Concat"}}
EffectPrograms ==
    {MainOnly(<< VarDecl("x", Some(Number(1))), s >>) :
        s \in {VarDecl("y", Some(e)) : e \in EffectExprs}
              \cup {Assignment("x", e) : e \in EffectExprs}
              \cup {ExpressionStmt(e) : e \in EffectExprs}
              \cup {VarDecl("y", None)}}

\* func f(a1, .., an) { return a1 }   func main() { var r = f(1, .., n) }
\* func main() { var a [2]int  var x = 3  NAME[1] = 5 }   NAME is a, x, or the undeclared b
\* func main() { var x = (1 - 2) - (3 - 4) }
CallSizes == {0, 1, 6, 7, 8}
BalancePrograms ==
    {Program(<< Function("f", [i \in 1..n |-> "a" \o ToString(i)],
                         << Return(Some(IF n = 0 THEN Number(0) ELSE Identifier("a1"))) >>,
                         FALSE),
                Function("main", << >>,
                         << VarDecl("r", Some(Call("f", [i \in 1..n |-> Number(i)]))) >>,
                         FALSE) >>,
             Modules(<< >>)) : n \in CallSizes}
    \cup {MainOnly(<< ArrayDecl("a", 2), VarDecl("x", Some(Number(3))),
                      ArrayAssignment(name, Number(1), Number(5)) >>) :
             name \in {"a", "x", "b"}}
    \cup {MainOnly(<< VarDecl("x", Some(Binary("Sub", Binary("Sub", Number(1), Number(2)),
                                               Binary("Sub", Number(3), Number(4))))) >>)}

\* import "math"  import "stdio"
\* func NAME() { return 1 }   func main() { var r = NAME()  var s = math.Add(2, 3) }
\* and   func f() { return 1 }  func f() { return 2 }  func main() { var r = f() }
FunctionNames == {"mathAdd", "math_Add", "math_helper", "stdio_Println"}
SymbolPrograms ==
    {Program(<< Function(name, << >>, << Return(Some(Number(1))) >>, FALSE),
                Function("main", << >>,
                         << VarDecl("r", Some(Call(name, << >>))),
                            VarDecl("s", Some(ModuleCall("math", "Add",
                                                         << Number(2), Number(3) >>))) >>,
                         FALSE) >>,
             Modules(<< MathModule, StdioModule >>)) : name \in FunctionNames}
    \cup {Program(<< Function("f", << >>, << Return(Some(Number(1))) >>, FALSE),
                     Function("f", << >>, << Return(Some(Number(2))) >>, FALSE),
                     Function("main", << >>, << VarDecl("r", Some(Call("f", << >>))) >>,
                              FALSE) >>,
                  Modules(<< >>))}

\* func f(n) { if n { return f(n - 1) } return 0 }   func main() { var r = f(3) }
\* the same with f calling g and g calling f, and a chain f -> g -> h that ends
Countdown(name, callee) ==
    Function(name, <<"n">>,
             << IfStmt(Identifier("n"),
                       << Return(Some(Call(callee, << Binary("Sub", Identifier("n"),
                                                             Number(1)) >>))) >>,
                       None),
                Return(Some(Number(0))) >>,
             FALSE)
CallsF == Function("main", << >>, << VarDecl("r", Some(Call("f", << Number(3) >>))) >>, FALSE)
RecursionPrograms ==
    {Program(<< Countdown("f", "f"), CallsF >>, Modules(<< >>)),
     Program(<< Countdown("f", "g"), Countdown("g", "f"), CallsF >>, Modules(<< >>)),
     Program(<< Countdown("f", "g"), Countdown("g", "h"),
                Function("h", <<"n">>, << Return(Some(Identifier("n"))) >>, FALSE),
                CallsF >>, Modules(<< >>))}

\* func main() { var x = N } for 64-bit literals N whose bytes hold, or all but hold, an
\* import placeholder, and import "stdio"  func main() { stdio.PrintStr("...") } for
\* literals of two and of 255 bytes, one beginning with the bytes 15 00 00 00 20
WideLiterals == {WideNumber(8192, 5631), WideNumber(4096, 5631), WideNumber(8192, 5630),
                 Number(369033216)}
PatchTexts == {<<72, 105>>, [i \in 1..255 |-> 65],
               <<21, 0, 0, 0, 32>> \o [i \in 1..250 |-> 65]}
PatchPrograms ==
    {MainOnly(<< VarDecl("x", Some(n)) >>) : n \in WideLiterals}
    \cup {Program(<< Function("main", << >>,
                              << ExpressionStmt(ModuleCall("stdio", "PrintStr",
                                                           << StringLit(s) >>)) >>,
                              FALSE) >>,
                  Modules(<< StdioModule >>)) : s \in PatchTexts}

FramePrograms == SlotPrograms \cup ScopePrograms \cup ArrayPrograms

InitFrame ==
    /\ \/ target \in {"elf", "novaria", "pe"} /\ program \in FramePrograms
       \/ target = "novaria" /\ program \in PrintPrograms \cup EffectPrograms
       \/ target = "elf" /\ program \in BalancePrograms
       \/ target \in {"elf", "novaria"} /\ program \in SymbolPrograms
       \/ target \in {"elf", "novaria", "pe"} /\ program \in RecursionPrograms
       \/ target = "pe" /\ program \in PatchPrograms
    /\ cpu = None
    /\ source_file = MainPer
    /\ output_file = OutputFile(target, source_file)
    /\ fs = {}
    /\ pc = "start"
    /\ visited = << >>
    /\ fn_index = 1
    /\ asm = AsmNew
    /\ nvm = NVMCodeGenNew
    /\ cg = CodeGenNew
    /\ artifact = None
    /\ console = << >>
    /\ outcome = "running"
    /\ vm = None
    /\ ld = None

NextFrame ==
    \/ ElfText \/ ElfModule \/ ElfFunction \/ ElfMain \/ ElfWrite \/ ElfGcc \/ ElfGccMissing
    \/ NvmMain \/ NvmFunction \/ NvmModule \/ NvmFinish \/ NvmWrite
    \/ PeCodeGen \/ PeWrite
    \/ CpuLoad \/ CpuStep

SpecFrame == InitFrame /\ [][NextFrame]_vars /\ WF_vars(CpuLoad \/ CpuStep)

\* the names a function declares, in source order: its parameters, then the variable
\* declarations of its body
RECURSIVE DeclaredIn(_)
DeclaredIn(stmts) ==
    IF stmts = << >> THEN << >>
    ELSE (IF Head(stmts).tag = "VarDecl" THEN <<Head(stmts).name>> ELSE << >>)
         \o DeclaredIn(Tail(stmts))
Declared(func) == func.params \o DeclaredIn(func.body)
MainFunction == FindFunction(program.functions, "main")[1]
\* the variable-to-slot map the generator holds when it has emitted main
Slots == IF target = "novaria" THEN nvm.local_vars ELSE Variables
Generated == pc \in {"write", "gcc", "done"} /\ outcome \in {"running", "success"}

\* C21: in a function without arrays the k-th declared name (with or without an
\* initializer) is bound to frame offset -8k on the native targets and to local index
\* k - 1 on NVM, and the assignments to and reads of a declared name address that slot:
\* run natively, main ends with every declared variable holding the value the program
\* gives it.
C21_FreshSlots ==
    (program \in SlotPrograms /\ Generated) =>
        /\ \A k \in 1..Len(Declared(MainFunction)) :
              /\ Declared(MainFunction)[k] \in DOMAIN Slots
              /\ Slots[Declared(MainFunction)[k]] = (IF target = "novaria" THEN k - 1
                                                     ELSE -8 * k)
        /\ ~Stuck
        /\ Exited => \A name \in DOMAIN RefMain(program) :
                        MainVariable(name) = Qword(RefMain(program)[name])

\* the bodies whose start the generator of the target recorded
Frames == CASE target = "elf" -> asm.frames
            [] target = "pe" -> cg.frames
            [] OTHER -> nvm.frames
\* the parameters a backend binds: the ELF emitters bind those passed in registers
BoundParams(params) ==
    {params[k] : k \in {j \in 1..Len(params) : target # "elf" \/ j <= Len(arg_regs)}}

\* C22: on every backend the body of a function starts with a variable map that holds
\* the function's parameters and nothing else, and with a slot counter (stack offset)
\* that counts only them: no binding of the caller or of a function generated before
\* is visible.
C22_FramesReset ==
    program \in ScopePrograms =>
        \A i \in 1..Len(Frames) :
            /\ DOMAIN Frames[i].variables = BoundParams(Frames[i].params)
            /\ Frames[i].stack_offset =
                  (IF target = "novaria" THEN Cardinality(BoundParams(Frames[i].params))
                   ELSE -8 * Cardinality(BoundParams(Frames[i].params)))

\* the word in element i of an array of main
MainElement(name, i) ==
    BytesQword([k \in 1..8 |-> cpu[1].mem[StackTop - 8 + Variables[name] + (8 * i) + k - 1]])
\* the arrays main declares, as <<name, size>>
MainArrays ==
    {<<MainFunction.body[k].name, MainFunction.body[k].size>> :
        k \in {j \in 1..Len(MainFunction.body) : MainFunction.body[j].tag = "ArrayDecl"}}

\* C23: on both native backends an array of size n occupies the n slots base_offset,
\* base_offset + 8, .. of the frame, which hold no other variable of the function, and
\* element reads and writes address base_offset + 8i: when main has run, every element
\* holds the value last assigned to it (0 if none) and every other variable its own.
C23_ArraySlots ==
    (program \in ArrayPrograms /\ target \in {"elf", "pe"} /\ Generated) =>
        /\ \A arr \in MainArrays :
              /\ arr[1] \in DOMAIN Slots
              /\ \A v \in DOMAIN Slots \ {arr[1]} :
                    Slots[v] < Slots[arr[1]] \/ Slots[v] >= Slots[arr[1]] + (8 * arr[2])
        /\ ~Stuck
        /\ Exited =>
              /\ \A arr \in MainArrays : \A i \in 0..(arr[2] - 1) :
                    MainElement(arr[1], i) = Qword(RefMain(program)[Element(arr[1], i)])
              /\ \A k \in 1..Len(Declared(MainFunction)) :
                    MainVariable(Declared(MainFunction)[k])
                        = Qword(RefMain(program)[Declared(MainFunction)[k]])

\* where the code of main ends in the NVM image: main is emitted first, and with stdio
\* imported the itoa helper follows the last function
NvmMainEnd ==
    IF "__print_int" \in DOMAIN nvm.labels THEN nvm.labels["__print_int"]
    ELSE NvmCodeEnd(nvm)
\* the bytes `stdio.F("s")` is to print
PrintedText ==
    MainFunction.body[1].expr.args[1].s
        \o (IF MainFunction.body[1].expr.function \in {"Println", "PrintlnStr"} THEN <<10>>
            ELSE << >>)
\* the instruction at 0-based offset p is PUSH32 <byte>, followed by SYSCALL PRINT
NvmPrintPairAt(image, p, byte) ==
    /\ p + 7 <= Len(image)
    /\ image[p + 1] = PUSH32 /\ from_be_bytes(image, p + 1) = byte
    /\ image[p + 6] = SYSCALL /\ image[p + 7] = SYSCALL_PRINT

\* C24: on NVM a call of stdio.Print, Println, PrintStr, PrintlnStr or PrintChar with a
\* string literal emits PUSH32 <byte>; SYSCALL PRINT for each byte of the literal in
\* order, then the same pair for a newline for the ln variants, and no CALL32.
C24_StringPrint ==
    (program \in PrintPrograms /\ NvmEmitted) =>
        /\ \A k \in 1..Len(PrintedText) :
              NvmPrintPairAt(nvm.bytecode, 4 + (7 * (k - 1)), PrintedText[k])
        /\ ~NvmPrintPairAt(nvm.bytecode, 4 + (7 * Len(PrintedText)), 10)
        /\ \A p \in NvmInstrStarts(nvm.bytecode, 4, NvmMainEnd, {}) :
              nvm.bytecode[p + 1] # CALL32

\* the target of the short jump whose rel8 operand is at 0-based position pos
JumpTarget8(code, pos) == pos + 1 + Signed8(code[pos + 1])

\* C25: on the PE backend, for every literal printed with stdio.PrintStr or
\* stdio.PrintlnStr, the jump emitted before the literal lands on the first byte after
\* the literal bytes emitted, and the length handed to WriteFile is the number of those
\* bytes (the literal, plus the newline for PrintlnStr), for every length, 128 and more
\* included.
C25_JumpOverLiteral ==
    (program \in PePrograms /\ PeEmitted) =>
        \A i \in 1..Len(cg.strings) :
            /\ JumpTarget8(cg.code, cg.strings[i].string_addr - 1)
                  = cg.strings[i].string_addr + Len(cg.strings[i].text)
            /\ from_le_bytes(cg.code, cg.strings[i].length_pos) = Len(cg.strings[i].text)

\* what an instruction of straight-line code adds to the depth of the stack, by the
\* opcode table: pushes minus pops
NvmEffect(op) ==
    IF op \in {PUSH32, LOAD} THEN 1
    ELSE IF op \in {ADD, SUB, MUL, DIV, MOD, EQ, NEQ, GT, LT, POP, STORE, SYSCALL} THEN -1
    ELSE 0
RECURSIVE NvmStackEffect(_, _, _)
NvmStackEffect(image, pos, end) ==
    IF pos >= end THEN 0
    ELSE NvmEffect(image[pos + 1])
         + NvmStackEffect(image, pos + NvmInstrLen(image[pos + 1]), end)
\* main of an effect program: `var x = 1` takes the 7 bytes after the magic, and the
\* 8 bytes of PUSH32 0; SYSCALL EXIT; RET follow the body
EffectStart == 4 + NvmInstrLen(PUSH32) + NvmInstrLen(STORE)
EffectEnd == Len(nvm.bytecode) - 8
\* the bytes with which the statement consumes its expression's value: POP, or STORE n
EffectTail == IF MainFunction.body[2].tag = "Expression" THEN 1 ELSE 2

\* C26: on NVM the code of an expression over integer literals, identifiers, unary and
\* binary operators (every operator tag) leaves exactly one more value on the stack, and
\* the code of a declaration, an assignment or an expression statement leaves the depth
\* of the stack unchanged.
C26_StackEffect ==
    (program \in EffectPrograms /\ NvmEmitted) =>
        /\ NvmStackEffect(nvm.bytecode, EffectStart, EffectEnd) = 0
        /\ (MainFunction.body[2].tag # "VarDecl" \/ MainFunction.body[2].value # None) =>
              NvmStackEffect(nvm.bytecode, EffectStart, EffectEnd - EffectTail) = 1

\* the lines of the assembly text with a mnemonic, an operand, or both
AsmCount(output, mnemonic) == Cardinality({i \in 1..Len(output) : output[i][1] = mnemonic})
AsmPrologues(output) ==
    Cardinality({i \in 1..Len(output) : output[i] = <<"pushq", "%rbp", "">>})

\* C27: in the ELF text the statements and expressions pop as often as they push (the
\* only other push is the prologue's, undone by leave), so that a function reaches its
\* `leave` with the stack pointer where the prologue put it, 64 bytes below the frame
\* base -- for calls of any number of arguments and array assignments to any name.
C27_PushPopBalance ==
    (program \in BalancePrograms /\ target = "elf" /\ Generated) =>
        /\ pc # "start" =>
              AsmCount(asm.output, "pushq") - AsmPrologues(asm.output)
                  = AsmCount(asm.output, "popq")
        /\ ~Stuck
        /\ (cpu # None /\ cpu[1].status = "running" /\ Fetch(cpu[1]).mn = "leave") =>
              cpu[1].regs["rsp"] = Sub64(cpu[1].regs["rbp"], Qword(64))

\* C28: the function bodies of one output carry pairwise distinct names -- no symbol of
\* the assembly text is defined on two lines, no two bodies of an NVM image were emitted
\* under one label -- and each NVM function label stands for the start of the body
\* emitted under it, so that a call reaches the function the source named.
C28_DistinctSymbols ==
    (program \in SymbolPrograms /\ pc \in {"write", "gcc", "done"}) =>
        /\ target = "elf" =>
              \A i, j \in 1..Len(asm.output) :
                  (asm.output[i][1] = "label" /\ asm.output[j][1] = "label"
                      /\ asm.output[i][2] = asm.output[j][2]) => i = j
        /\ target = "novaria" =>
              \A i, j \in 1..Len(nvm.frames) :
                  /\ nvm.frames[i].symbol = nvm.frames[j].symbol => i = j
                  /\ nvm.labels["func_" \o nvm.frames[i].symbol] = nvm.frames[i].start

\* C29: code generation comes to an end on every backend: for a program whose functions
\* call themselves or each other, as for one whose calls end, the generator returns its
\* output -- it never nests without end -- and the compilation goes on to write it.
C29_GenerationEnds ==
    program \in RecursionPrograms =>
        /\ ~cg.panicked /\ ~cg.overflow /\ ~nvm.panicked
        /\ outcome # "panic"

\* the offsets at which the instructions of the emitted code start: the code is read from
\* its first byte on, instruction after instruction, the inline literals stepped over
RECURSIVE PeSweep(_, _, _, _)
PeSweep(code, strings, p, starts) ==
    IF p >= Len(code) THEN starts
    ELSE LET lit == {k \in 1..Len(strings) :
                        strings[k].string_addr = p /\ Len(strings[k].text) > 0}
         IN  IF lit # {}
             THEN PeSweep(code, strings, p + Len(strings[CHOOSE k \in lit : TRUE].text),
                          starts)
             ELSE IF Decode(code \o Zeros(16), p).mn = "unmodelled" THEN starts
             ELSE PeSweep(code, strings, Decode(code \o Zeros(16), p).next, starts \cup {p})
\* the indirect calls among them
PeEmittedCalls(code, strings) ==
    {i \in PeSweep(code, strings, 0, {}) : code[i + 1] = \hFF /\ code[i + 2] = \h15}

\* C30: the written code section differs from the emitted code only inside the 4-byte
\* displacement of an indirect call the generator emitted; the bytes of 64-bit
\* immediates and of inline literals are those emitted, and the code keeps its length
\* (what follows it up to the file alignment is padding).
C30_PatchOnlyCalls ==
    (program \in PatchPrograms /\ PeWritten) =>
        LET file == artifact[1].content
            code == cg.code
            calls == PeEmittedCalls(code, cg.strings)
        IN  /\ Len(file) >= \h200 + align(Len(code), \h200)
            /\ \A p \in 0..(Len(code) - 1) :
                  file[\h200 + p + 1] # code[p + 1] => \E i \in calls : p \in (i + 2)..(i + 5)
            /\ \A p \in Len(code)..(align(Len(code), \h200) - 1) : file[\h200 + p + 1] = 0

====
